---- MODULE Spec2Model ----
(***************************************************************************)
(* De Bruijn graph assembly engine (dbg.py, cleaning.py,                   *)
(* velvet_optimizations.py, traversal.py, assembly_core.py).               *)
(*                                                                         *)
(* A node is a (k-1)-mer, modelled as a sequence of one-letter strings.    *)
(* A Python dict is modelled with its insertion order wherever the code    *)
(* iterates over it: out_edges is a sequence of entries [u, targets], and  *)
(* targets is a sequence of entries [v, w].  The degree dicts are never    *)
(* iterated, so they are functions whose DOMAIN is the set of keys.        *)
(* A Python set of strings has no defined iteration order: every loop over *)
(* a set takes the order as an input of the action.                        *)
(***************************************************************************)
EXTENDS Integers, Sequences, FiniteSets, TLC

VARIABLES graph, op, inp, out, pc

vars == <<graph, op, inp, out, pc>>

(***************************************************************************)
(* Bounds of the model.                                                    *)
(***************************************************************************)
MaxWeight == 2

MaxEdges == 2

NodeU == {<<"A">>, <<"C">>, <<"G">>}

NoNode == <<"-">>

(***************************************************************************)
(* Generic helpers for lists, sets and dicts.                              *)
(***************************************************************************)
Range(s) == {s[i] : i \in DOMAIN s}

RECURSIVE SumSeq(_)
SumSeq(s) == IF s = << >> THEN 0 ELSE Head(s) + SumSeq(Tail(s))

\* every list that enumerates the set S once (the possible iteration orders)
Orders(S) ==
    {f \in [1..Cardinality(S) -> S] : \A i, j \in 1..Cardinality(S) : f[i] = f[j] => i = j}

\* list(S) for a set S, iterated in the order given by the list ord
ListOf(S, ord) == SelectSeq(ord, LAMBDA x : x \in S)

EmptyDict == << >>

DictGet(d, key, default) == IF key \in DOMAIN d THEN d[key] ELSE default

DictSet(d, key, val) == [x \in (DOMAIN d) \cup {key} |-> IF x = key THEN val ELSE d[x]]

DictPop(d, key) == [x \in (DOMAIN d) \ {key} |-> d[x]]

\* d[key] += delta on a defaultdict(int)
DictAdd(d, key, delta) == DictSet(d, key, DictGet(d, key, 0) + delta)

(***************************************************************************)
(* DeBruijnGraph                                                           *)
(***************************************************************************)
EmptyGraph ==
    [nodes |-> {}, out_edges |-> << >>, in_degree |-> EmptyDict, out_degree |-> EmptyDict]

\* u in graph.out_edges
HasKey(G, u) == \E i \in DOMAIN G.out_edges : G.out_edges[i].u = u

KeyIdx(G, u) == CHOOSE i \in DOMAIN G.out_edges : G.out_edges[i].u = u

\* list(graph.out_edges.keys())
OutKeys(G) == [i \in DOMAIN G.out_edges |-> G.out_edges[i].u]

\* graph.out_edges[u] as a list of [v, w] entries (empty when u is no key)
TargetsOf(G, u) == IF HasKey(G, u) THEN G.out_edges[KeyIdx(G, u)].targets ELSE << >>

\* u in graph.out_edges and v in graph.out_edges[u]
HasEdge(G, u, v) == \E j \in DOMAIN TargetsOf(G, u) : TargetsOf(G, u)[j].v = v

EdgeSet(G) == {<<u, v>> \in Range(OutKeys(G)) \X G.nodes : HasEdge(G, u, v)}

get_successors(G, node) ==
    [j \in DOMAIN TargetsOf(G, node) |-> TargetsOf(G, node)[j].v]

get_predecessors(G, node) ==
    LET hit == SelectSeq(G.out_edges,
                         LAMBDA e : \E j \in DOMAIN e.targets : e.targets[j].v = node)
    IN  [i \in DOMAIN hit |-> hit[i].u]

get_neighbors_undirected(G, node) ==
    Range(get_successors(G, node)) \cup Range(get_predecessors(G, node))

get_edge_weight(G, u, v) ==
    IF HasEdge(G, u, v)
    THEN LET t == TargetsOf(G, u)
         IN  t[CHOOSE j \in DOMAIN t : t[j].v = v].w
    ELSE 0

node_exists(G, node) == node \in G.nodes

\* self.out_edges[u] on the defaultdict: a missing key u is created, last in key order
TouchKey(G, u) ==
    IF HasKey(G, u) THEN G
    ELSE [G EXCEPT !.out_edges = Append(@, [u |-> u, targets |-> << >>])]

\* del graph.out_edges[u]
DelKey(oe, u) == SelectSeq(oe, LAMBDA e : e.u # u)

\* del graph.out_edges[u][v]
DelTarget(oe, u, v) ==
    [i \in DOMAIN oe |->
        IF oe[i].u = u
        THEN [oe[i] EXCEPT !.targets = SelectSeq(@, LAMBDA t : t.v # v)]
        ELSE oe[i]]

\* a bug of add_edge: the degree counters are incremented on every call
add_edge_per_call(G, u, v, weight) ==
    LET G1 == TouchKey([G EXCEPT !.nodes = @ \cup {u, v}], u)
        i  == KeyIdx(G1, u)
        G2 == IF HasEdge(G1, u, v)
              THEN [G1 EXCEPT !.out_edges[i].targets =
                        [j \in DOMAIN @ |-> IF @[j].v = v
                                            THEN [@[j] EXCEPT !.w = @ + weight]
                                            ELSE @[j]]]
              ELSE [G1 EXCEPT !.out_edges[i].targets = Append(@, [v |-> v, w |-> weight])]
    IN  [G2 EXCEPT !.out_degree = DictAdd(DictAdd(@, u, 1), v, 0),
                   !.in_degree  = DictAdd(DictAdd(@, v, 1), u, 0)]

\* a bug of add_edge: a repeated call overwrites the weight instead of adding to it
add_edge_overwrite(G, u, v, weight) ==
    LET G1 == TouchKey([G EXCEPT !.nodes = @ \cup {u, v}], u)
        i  == KeyIdx(G1, u)
        G2 == IF HasEdge(G1, u, v)
              THEN [G1 EXCEPT !.out_edges[i].targets =
                        [j \in DOMAIN @ |-> IF @[j].v = v
                                            THEN [@[j] EXCEPT !.w = weight]
                                            ELSE @[j]]]
              ELSE [G1 EXCEPT !.out_edges[i].targets = Append(@, [v |-> v, w |-> weight]),
                              !.out_degree = DictAdd(@, u, 1),
                              !.in_degree  = DictAdd(@, v, 1)]
    IN  [G2 EXCEPT !.in_degree  = DictAdd(@, u, 0),
                   !.out_degree = DictAdd(@, v, 0)]

add_edge(G, u, v, weight) ==
    LET G1 == TouchKey([G EXCEPT !.nodes = @ \cup {u, v}], u)
        i  == KeyIdx(G1, u)
        G2 == IF HasEdge(G1, u, v)
              THEN [G1 EXCEPT !.out_edges[i].targets =
                        [j \in DOMAIN @ |-> IF @[j].v = v
                                            THEN [@[j] EXCEPT !.w = @ + weight]
                                            ELSE @[j]]]
              ELSE [G1 EXCEPT !.out_edges[i].targets = Append(@, [v |-> v, w |-> weight]),
                              !.out_degree = DictAdd(@, u, 1),
                              !.in_degree  = DictAdd(@, v, 1)]
    IN  \* setdefault(u, self.in_degree[u]) / setdefault(v, self.out_degree[v])
        [G2 EXCEPT !.in_degree  = DictAdd(@, u, 0),
                   !.out_degree = DictAdd(@, v, 0)]

\* a bug of remove_edge: the counters are decremented without the presence test
remove_edge_unguarded(G, u, v) ==
    LET oe == DelTarget(G.out_edges, u, v)
    IN  [G EXCEPT !.out_edges  = SelectSeq(oe, LAMBDA e : e.targets # << >>),
                  !.out_degree = DictAdd(@, u, -1),
                  !.in_degree  = DictAdd(@, v, -1)]

remove_edge(G, u, v) ==
    IF HasEdge(G, u, v)
    THEN LET oe == DelTarget(G.out_edges, u, v)
         IN  [G EXCEPT !.out_edges  = IF TargetsOf([G EXCEPT !.out_edges = oe], u) = << >>
                                      THEN DelKey(oe, u) ELSE oe,
                       !.out_degree = DictAdd(@, u, -1),
                       !.in_degree  = DictAdd(@, v, -1)]
    ELSE G

\* for v in list(...): d[v] -= 1
RECURSIVE DecEach(_, _)
DecEach(d, vs) == IF vs = << >> THEN d ELSE DecEach(DictAdd(d, Head(vs), -1), Tail(vs))

\* the loop of remove_node over list(graph.out_edges.keys()), deleting u -> node
RECURSIVE DropIncoming(_, _, _)
DropIncoming(G, us, node) ==
    IF us = << >> THEN G
    ELSE LET u == Head(us)
         IN  IF HasEdge(G, u, node)
             THEN LET oe == DelTarget(G.out_edges, u, node)
                      G1 == [G EXCEPT !.out_edges =
                                 IF TargetsOf([G EXCEPT !.out_edges = oe], u) = << >>
                                 THEN DelKey(oe, u) ELSE oe,
                                      !.out_degree = DictAdd(@, u, -1)]
                  IN  DropIncoming(G1, Tail(us), node)
             ELSE DropIncoming(G, Tail(us), node)

\* a bug of remove_node: the incoming edges of the node are left in place
remove_node_keep_incoming(G, node) ==
    LET G1 == IF HasKey(G, node)
              THEN [G EXCEPT !.in_degree = DecEach(@, get_successors(G, node)),
                             !.out_edges = DelKey(@, node)]
              ELSE G
    IN  [G1 EXCEPT !.in_degree  = DictPop(@, node),
                   !.out_degree = DictPop(@, node),
                   !.nodes      = @ \ {node}]

remove_node(G, node) ==
    LET G1 == IF HasKey(G, node)
              THEN [G EXCEPT !.in_degree = DecEach(@, get_successors(G, node)),
                             !.out_edges = DelKey(@, node)]
              ELSE G
        G2 == DropIncoming(G1, OutKeys(G1), node)
    IN  [G2 EXCEPT !.in_degree  = DictPop(@, node),
                   !.out_degree = DictPop(@, node),
                   !.nodes      = @ \ {node}]

\* remove_nodes: remove_node for every node of the set, in iteration order ns
RECURSIVE remove_nodes(_, _)
remove_nodes(G, ns) ==
    IF ns = << >> THEN G ELSE remove_nodes(remove_node(G, Head(ns)), Tail(ns))

graph_stats(G) ==
    [nodes |-> Cardinality(G.nodes),
     edges |-> SumSeq([i \in DOMAIN G.out_edges |-> Len(G.out_edges[i].targets)])]

(***************************************************************************)
(* Island removal.  ord is the iteration order of Python sets in this call: *)
(* a list that enumerates every node once.                                 *)
(***************************************************************************)
\* the while loop of find_connected_component; st = [visited, component]
RECURSIVE BfsLoop(_, _, _, _)
BfsLoop(G, queue, st, ord) ==
    IF queue = << >> THEN st
    ELSE LET current == Head(queue)
         IN  IF current \in st.visited
             THEN BfsLoop(G, Tail(queue), st, ord)
             ELSE LET st1 == [visited   |-> st.visited \cup {current},
                              component |-> st.component \cup {current}]
                      nb  == ListOf(get_neighbors_undirected(G, current), ord)
                      new == SelectSeq(nb, LAMBDA x : x \notin st1.visited)
                  IN  BfsLoop(G, Tail(queue) \o new, st1, ord)

\* returns [visited, component]: visited is updated in place by the code
find_connected_component(G, start, visited, ord) ==
    BfsLoop(G, <<start>>, [visited |-> visited, component |-> {}], ord)

\* the for loop of remove_islands; st = [visited, nodes_to_remove]
RECURSIVE IslandLoop(_, _, _, _, _)
IslandLoop(G, todo, st, min_component_size, ord) ==
    IF todo = << >> THEN st
    ELSE LET node == Head(todo)
         IN  IF node \in st.visited
             THEN IslandLoop(G, Tail(todo), st, min_component_size, ord)
             ELSE LET r == find_connected_component(G, node, st.visited, ord)
                  IN  IslandLoop(G, Tail(todo),
                          [visited |-> r.visited,
                           nodes_to_remove |->
                               IF Cardinality(r.component) < min_component_size
                               THEN st.nodes_to_remove \cup r.component
                               ELSE st.nodes_to_remove],
                          min_component_size, ord)

\* a bug of remove_islands: only the node the search started from is removed
RECURSIVE IslandLoopStartOnly(_, _, _, _, _)
IslandLoopStartOnly(G, todo, st, min_component_size, ord) ==
    IF todo = << >> THEN st
    ELSE LET node == Head(todo)
         IN  IF node \in st.visited
             THEN IslandLoopStartOnly(G, Tail(todo), st, min_component_size, ord)
             ELSE LET r == find_connected_component(G, node, st.visited, ord)
                  IN  IslandLoopStartOnly(G, Tail(todo),
                          [visited |-> r.visited,
                           nodes_to_remove |->
                               IF Cardinality(r.component) < min_component_size
                               THEN st.nodes_to_remove \cup {node}
                               ELSE st.nodes_to_remove],
                          min_component_size, ord)

remove_islands_start_only(G, min_component_size, ord) ==
    LET st == IslandLoopStartOnly(G, ListOf(G.nodes, ord),
                                  [visited |-> {}, nodes_to_remove |-> {}],
                                  min_component_size, ord)
    IN  remove_nodes(G, ListOf(st.nodes_to_remove, ord))

remove_islands(G, min_component_size, ord) ==
    LET st == IslandLoop(G, ListOf(G.nodes, ord),
                         [visited |-> {}, nodes_to_remove |-> {}],
                         min_component_size, ord)
    IN  remove_nodes(G, ListOf(st.nodes_to_remove, ord))

(***************************************************************************)
(* Specification Spec: the Graph Store under any sequence of calls of its  *)
(* mutators, starting from the empty graph.  op records the last call and  *)
(* whether its edge or node was in the graph when it was made.             *)
(***************************************************************************)
NoOp == [name |-> "init", u |-> NoNode, v |-> NoNode, w |-> 0, present |-> FALSE]

NoInp == [kind |-> "none"]

NoOut == [kind |-> "none"]

NumEdges(G) == graph_stats(G).edges

\* the values of min_component_size
ComponentSizes == {1, 2, 3}

Init ==
    /\ graph = EmptyGraph
    /\ op = NoOp
    /\ inp = NoInp
    /\ out = NoOut
    /\ pc = "store"

AddEdge ==
    \E u \in NodeU, v \in NodeU, w \in 1..MaxWeight :
        /\ pc = "store"
        /\ get_edge_weight(graph, u, v) + w <= MaxWeight
        /\ HasEdge(graph, u, v) \/ NumEdges(graph) < MaxEdges
        /\ graph' = add_edge(graph, u, v, w)
        /\ op' = [name |-> "add_edge", u |-> u, v |-> v, w |-> w,
                  present |-> HasEdge(graph, u, v)]
        /\ UNCHANGED <<inp, out, pc>>

RemoveEdge ==
    \E u \in NodeU, v \in NodeU :
        /\ pc = "store"
        /\ graph' = remove_edge(graph, u, v)
        /\ op' = [name |-> "remove_edge", u |-> u, v |-> v, w |-> 0,
                  present |-> HasEdge(graph, u, v)]
        /\ UNCHANGED <<inp, out, pc>>

RemoveNode ==
    \E n \in NodeU :
        /\ pc = "store"
        /\ graph' = remove_node(graph, n)
        /\ op' = [name |-> "remove_node", u |-> n, v |-> NoNode, w |-> 0,
                  present |-> n \in graph.nodes]
        /\ UNCHANGED <<inp, out, pc>>

RemoveIslands ==
    \E m \in ComponentSizes, ord \in Orders(graph.nodes) :
        /\ pc = "store"
        /\ graph' = remove_islands(graph, m, ord)
        /\ op' = [name |-> "remove_islands", u |-> NoNode, v |-> NoNode, w |-> m,
                  present |-> graph' # graph]
        /\ UNCHANGED <<inp, out, pc>>

Next == AddEdge \/ RemoveEdge \/ RemoveNode

Spec == Init /\ [][Next]_vars

(***************************************************************************)
(* Degree bookkeeping                                                      *)
(***************************************************************************)
InDeg(G, n) == DictGet(G.in_degree, n, 0)

OutDeg(G, n) == DictGet(G.out_degree, n, 0)

\* the nodes whose outgoing-edge mapping contains n
Sources(G, n) == {u \in Range(OutKeys(G)) : HasEdge(G, u, n)}

SelfLoop(G, n) == HasEdge(G, n, n)

\* C1: for every node of the node set, out_degree is the number of keys of its
\* outgoing-edge mapping and in_degree is the number of nodes whose mapping
\* contains it, after any sequence of add_edge, remove_edge and remove_node.
C1_DegreesMatchEdges ==
    \A n \in graph.nodes :
        /\ OutDeg(graph, n) = Len(TargetsOf(graph, n))
        /\ InDeg(graph, n) = Cardinality(Sources(graph, n))

C1_Witness ==
    /\ op.name \in {"remove_edge", "remove_node"}
    /\ op.present
    /\ \E n \in graph.nodes :
          /\ SelfLoop(graph, n)
          /\ InDeg(graph, n) = 2
          /\ OutDeg(graph, n) = 1

\* C2: after a remove_edge or remove_node call no node with in_degree = 0 and
\* out_degree = 0 is left in the node set or in either degree map.
ZeroDegree(G, n) == InDeg(G, n) = 0 /\ OutDeg(G, n) = 0

C2_NoZeroDegreeLeft ==
    op.name \in {"remove_edge", "remove_node"} =>
        \A n \in graph.nodes \cup DOMAIN graph.in_degree \cup DOMAIN graph.out_degree :
            ~ZeroDegree(graph, n)

\* C3: after remove_node(n), n is in no bookkeeping structure and no edge
\* has n as source or target.
C3_RemovedNodeIsGone ==
    op.name = "remove_node" =>
        /\ op.u \notin graph.nodes
        /\ op.u \notin DOMAIN graph.in_degree
        /\ op.u \notin DOMAIN graph.out_degree
        /\ ~HasKey(graph, op.u)
        /\ \A u \in Range(OutKeys(graph)) : ~HasEdge(graph, u, op.u)

C3_Witness ==
    /\ op.name = "remove_node"
    /\ op.present
    /\ graph.nodes # {}
    /\ NumEdges(graph) > 0

\* C4: add_edge on an ordered pair that already has an edge adds the weight and
\* leaves every degree counter alone; on a new pair it creates the edge with
\* that weight and increments out_degree[u] and in_degree[v] by one.
C4_AddEdgeAccumulates ==
    [][op'.name = "add_edge" =>
        LET u == op'.u
            v == op'.v
        IN  /\ Cardinality({j \in DOMAIN TargetsOf(graph', u) : TargetsOf(graph', u)[j].v = v}) = 1
            /\ get_edge_weight(graph', u, v) = get_edge_weight(graph, u, v) + op'.w
            /\ \A n \in graph'.nodes :
                  /\ OutDeg(graph', n) = OutDeg(graph, n)
                        + (IF n = u /\ ~HasEdge(graph, u, v) THEN 1 ELSE 0)
                  /\ InDeg(graph', n) = InDeg(graph, n)
                        + (IF n = v /\ ~HasEdge(graph, u, v) THEN 1 ELSE 0)
            /\ NumEdges(graph') = NumEdges(graph) + (IF HasEdge(graph, u, v) THEN 0 ELSE 1)]_vars

C4_Witness ==
    /\ op.name = "add_edge"
    /\ op.present
    /\ get_edge_weight(graph, op.u, op.v) = MaxWeight
    /\ OutDeg(graph, op.u) = 1
    /\ InDeg(graph, op.v) = 1

\* C5: remove_edge of an absent edge and remove_node of an absent node change
\* nothing in the graph.
C5_AbsentRemovalIsNoOp ==
    [][(op'.name \in {"remove_edge", "remove_node"} /\ ~op'.present) => graph' = graph]_vars

C5_Witness ==
    /\ op.name \in {"remove_edge", "remove_node"}
    /\ ~op.present
    /\ NumEdges(graph) >= 2

(***************************************************************************)
(* build_graph_from_kmers.  kmer_counts is a dict in insertion order: a    *)
(* list of entries [kmer, count] with distinct k-mers.  The result is the  *)
(* graph, or the error the ValueError stands for.                          *)
(***************************************************************************)
MaxKmers == 3

MaxCount == 2

KmerU ==
    {<<"A">>, <<"C">>, <<"A", "A">>, <<"A", "C">>, <<"C", "A">>,
     <<"A", "A", "C">>, <<"A", "C", "A">>}

KValues == {1, 2, 3}

MinCountValues == {1, 2, 3}

\* kmer[:-1]
Prefix(kmer) == SubSeq(kmer, 1, Len(kmer) - 1)

\* kmer[1:]
Suffix(kmer) == SubSeq(kmer, 2, Len(kmer))

BuildOk(G) == [kind |-> "ok", error |-> "none", graph |-> G]

BuildError(e) == [kind |-> "error", error |-> e, graph |-> EmptyGraph]

RECURSIVE BuildLoopStrict(_, _, _, _)
BuildLoopStrict(G, items, k, min_kmer_count) ==
    IF items = << >> THEN BuildOk(G)
    ELSE LET kmer  == Head(items).kmer
             count == Head(items).count
         IN  IF count <= min_kmer_count
             THEN BuildLoopStrict(G, Tail(items), k, min_kmer_count)
             ELSE IF Len(kmer) # k
                  THEN BuildError("InvalidKmerLength")
                  ELSE BuildLoopStrict(add_edge(G, Prefix(kmer), Suffix(kmer), count),
                                       Tail(items), k, min_kmer_count)

RECURSIVE BuildLoopLenFirst(_, _, _, _)
BuildLoopLenFirst(G, items, k, min_kmer_count) ==
    IF items = << >> THEN BuildOk(G)
    ELSE LET kmer  == Head(items).kmer
             count == Head(items).count
         IN  IF Len(kmer) # k
             THEN BuildError("InvalidKmerLength")
             ELSE IF count < min_kmer_count
                  THEN BuildLoopLenFirst(G, Tail(items), k, min_kmer_count)
                  ELSE BuildLoopLenFirst(add_edge(G, Prefix(kmer), Suffix(kmer), count),
                                         Tail(items), k, min_kmer_count)

\* the loop over kmer_counts.items()
RECURSIVE BuildLoop(_, _, _, _)
BuildLoop(G, items, k, min_kmer_count) ==
    IF items = << >> THEN BuildOk(G)
    ELSE LET kmer  == Head(items).kmer
             count == Head(items).count
         IN  IF count < min_kmer_count
             THEN BuildLoop(G, Tail(items), k, min_kmer_count)
             ELSE IF Len(kmer) # k
                  THEN BuildError("InvalidKmerLength")
                  ELSE BuildLoop(add_edge(G, Prefix(kmer), Suffix(kmer), count),
                                 Tail(items), k, min_kmer_count)

\* a bug of build_graph_from_kmers: k-mers with count = min_kmer_count are dropped
build_strict_threshold(kmer_counts, k, min_kmer_count) ==
    IF kmer_counts = << >> THEN BuildError("EmptyInput")
    ELSE BuildLoopStrict(EmptyGraph, kmer_counts, k, min_kmer_count)

\* a bug of build_graph_from_kmers: the length is tested before the count filter
build_length_first(kmer_counts, k, min_kmer_count) ==
    IF kmer_counts = << >> THEN BuildError("EmptyInput")
    ELSE BuildLoopLenFirst(EmptyGraph, kmer_counts, k, min_kmer_count)

build_graph_from_kmers(kmer_counts, k, min_kmer_count) ==
    IF kmer_counts = << >> THEN BuildError("EmptyInput")
    ELSE BuildLoop(EmptyGraph, kmer_counts, k, min_kmer_count)

(***************************************************************************)
(* Specification BuildSpec: one construction from any k-mer mapping of at  *)
(* most MaxKmers k-mers with positive counts.                              *)
(***************************************************************************)
KmerDicts ==
    UNION {{d \in [1..n -> [kmer : KmerU, count : 1..MaxCount]] :
               \A i, j \in 1..n : d[i].kmer = d[j].kmer => i = j} : n \in 0..MaxKmers}

BuildInit ==
    /\ graph = EmptyGraph
    /\ op = NoOp
    /\ out = NoOut
    /\ pc = "build"
    /\ inp \in [kind : {"kmers"}, kmer_counts : KmerDicts, k : KValues,
                 min_kmer_count : MinCountValues]

Build ==
    /\ pc = "build"
    /\ LET r == build_graph_from_kmers(inp.kmer_counts, inp.k, inp.min_kmer_count)
       IN  /\ out' = [kind |-> r.kind, error |-> r.error]
           /\ graph' = r.graph
    /\ pc' = "built"
    /\ UNCHANGED <<op, inp>>

BuildNext == Build

BuildSpec == BuildInit /\ [][BuildNext]_vars

\* the entries of the mapping that pass the count filter
Retained == {i \in DOMAIN inp.kmer_counts : inp.kmer_counts[i].count >= inp.min_kmer_count}

WrongLength(i) == Len(inp.kmer_counts[i].kmer) # inp.k

\* C6: construction fails with EmptyInput exactly when the mapping is empty and
\* with InvalidKmerLength exactly when a retained k-mer has a length other
\* than k; a wrong-length k-mer below the threshold causes no failure.
C6_BuildErrors ==
    pc = "built" =>
        /\ (out.error = "EmptyInput") <=> (inp.kmer_counts = << >>)
        /\ (out.error = "InvalidKmerLength") <=> (\E i \in Retained : WrongLength(i))
        /\ (out.kind = "ok") <=> (out.error = "none")

C6_Witness ==
    /\ pc = "built"
    /\ out.kind = "ok"
    /\ Retained # {}
    /\ \E i \in DOMAIN inp.kmer_counts : WrongLength(i)

\* the retained entries whose k-mer has prefix u and suffix v
EntriesOf(u, v) ==
    {i \in Retained : Prefix(inp.kmer_counts[i].kmer) = u /\ Suffix(inp.kmer_counts[i].kmer) = v}

RetainedPairs ==
    {<<Prefix(inp.kmer_counts[i].kmer), Suffix(inp.kmer_counts[i].kmer)>> : i \in Retained}

RECURSIVE SumCounts(_)
SumCounts(I) ==
    IF I = {} THEN 0
    ELSE LET i == CHOOSE x \in I : TRUE
         IN  inp.kmer_counts[i].count + SumCounts(I \ {i})

BuiltShape ==
    /\ EdgeSet(graph) = RetainedPairs
    /\ graph.nodes = {e[1] : e \in RetainedPairs} \cup {e[2] : e \in RetainedPairs}

MaxIslandEdges == 3

\* graph.add_edge(u, v, w) for every entry of the list es, in order
RECURSIVE AddAll(_, _)
AddAll(G, es) ==
    IF es = << >> THEN G
    ELSE AddAll(add_edge(G, Head(es)[1], Head(es)[2], Head(es)[3]), Tail(es))

EdgeLists(maxlen) ==
    UNION {{es \in [1..n -> NodeU \X NodeU \X {1}] :
               \A i, j \in 1..n : (es[i][1] = es[j][1] /\ es[i][2] = es[j][2]) => i = j}
           : n \in 0..maxlen}

\* the i-th edge of the list gets weight i
Weighted(es) == [i \in DOMAIN es |-> <<es[i][1], es[i][2], i>>]

IslandInit ==
    /\ \E es \in EdgeLists(MaxIslandEdges) : graph = AddAll(EmptyGraph, Weighted(es))
    /\ op = NoOp
    /\ inp = NoInp
    /\ out = NoOut
    /\ pc = "store"

IslandNext == RemoveEdge \/ RemoveIslands

IslandSpec == IslandInit /\ [][IslandNext]_vars

\* C10: running remove_islands again, with the same min_component_size and
\* any iteration order, on the graph it returned changes nothing.
C10_IslandsIdempotent ==
    op.name = "remove_islands" =>
        \A ord \in Orders(graph.nodes) : remove_islands(graph, op.w, ord) = graph

C10_Witness ==
    /\ op.name = "remove_islands"
    /\ op.present
    /\ NumEdges(graph) > 0
    /\ Cardinality(graph.nodes) >= op.w

\* the nodes joined to n by an edge of G in either direction
Adjacent(G, n) == {m \in G.nodes : <<n, m>> \in EdgeSet(G) \/ <<m, n>> \in EdgeSet(G)}

\* the least set that contains S and is closed under Adjacent
RECURSIVE Closure(_, _)
Closure(G, S) ==
    LET T == S \cup UNION {Adjacent(G, n) : n \in S}
    IN  IF T = S THEN S ELSE Closure(G, T)

ComponentOf(G, n) == Closure(G, {n})

(***************************************************************************)
(* Specification ComponentSpec: one call of remove_islands on every graph  *)
(* of up to MaxComponentEdges edges over the nodes A, C, G; inp.before is  *)
(* the graph the call was made on.                                         *)
(***************************************************************************)
MaxComponentEdges == 3

ComponentInit ==
    /\ \E es \in EdgeLists(MaxComponentEdges) : graph = AddAll(EmptyGraph, Weighted(es))
    /\ op = NoOp
    /\ inp = NoInp
    /\ out = NoOut
    /\ pc = "islands"

RemoveIslandsOnce ==
    /\ pc = "islands"
    /\ \E m \in ComponentSizes, ord \in Orders(graph.nodes) :
           /\ graph' = remove_islands(graph, m, ord)
           /\ inp' = [kind |-> "islands", before |-> graph, min_component_size |-> m]
           /\ op' = [name |-> "remove_islands", u |-> NoNode, v |-> NoNode, w |-> m,
                     present |-> graph' # graph]
    /\ pc' = "cleaned"
    /\ UNCHANGED out

ComponentNext == RemoveIslandsOnce

ComponentSpec == ComponentInit /\ [][ComponentNext]_vars

\* C24: remove_islands(graph, m) leaves exactly the nodes whose undirected
\* connected component had at least m nodes, with every edge between them,
\* its weight and the degree counters of the remaining nodes unchanged.
C24_IslandsRemoved ==
    pc = "cleaned" =>
        /\ graph.nodes = {n \in inp.before.nodes :
                             Cardinality(ComponentOf(inp.before, n)) >= inp.min_component_size}
        /\ \A e \in EdgeSet(inp.before) :
              (e[1] \in graph.nodes /\ e[2] \in graph.nodes) =>
                  /\ HasEdge(graph, e[1], e[2])
                  /\ get_edge_weight(graph, e[1], e[2]) = get_edge_weight(inp.before, e[1], e[2])
        /\ EdgeSet(graph) \subseteq EdgeSet(inp.before)
        /\ \A n \in graph.nodes :
              /\ InDeg(graph, n) = InDeg(inp.before, n)
              /\ OutDeg(graph, n) = OutDeg(inp.before, n)

\* a component of two nodes was kept and a component of one node removed
C24_Witness ==
    /\ pc = "cleaned"
    /\ op.present
    /\ inp.min_component_size = 2
    /\ Cardinality(graph.nodes) = 2
    /\ Cardinality(inp.before.nodes) = 3

(***************************************************************************)
(* Bubble popping                                                          *)
(***************************************************************************)
\* the for loop of walk_simple_path; w = [current, path, weight_sum]
RECURSIVE WalkSimpleLoop(_, _, _)
WalkSimpleLoop(G, steps, w) ==
    IF steps = 0 THEN w
    ELSE IF OutDeg(G, w.current) # 1 \/ InDeg(G, w.current) # 1 THEN w
    ELSE LET successors == get_successors(G, w.current)
         IN  IF successors = << >> THEN w
             ELSE LET nxt == successors[1]
                  IN  WalkSimpleLoop(G, steps - 1,
                          [current    |-> nxt,
                           path       |-> Append(w.path, nxt),
                           weight_sum |-> w.weight_sum + get_edge_weight(G, w.current, nxt)])

\* returns [current (the end node), path, weight_sum]
walk_simple_path(G, start, max_len) ==
    WalkSimpleLoop(G, max_len, [current |-> start, path |-> <<start>>, weight_sum |-> 0])

\* for node in weaker_path[:-1]: if node_exists(graph, node): remove_node(graph, node)
RECURSIVE RemoveExisting(_, _)
RemoveExisting(G, ns) ==
    IF ns = << >> THEN G
    ELSE RemoveExisting(IF node_exists(G, Head(ns)) THEN remove_node(G, Head(ns)) ELSE G,
                        Tail(ns))

\* PopAt with the comparison weight1 <= weight2: on equal weights path1 is the weaker
PopAt_ties_first(G, u, max_bubble_len) ==
    IF ~node_exists(G, u) THEN G
    ELSE LET targets == get_successors(G, u)
         IN  IF Len(targets) # 2 THEN G
             ELSE LET w1 == walk_simple_path(G, targets[1], max_bubble_len)
                      w2 == walk_simple_path(G, targets[2], max_bubble_len)
                      weaker_path == IF w1.weight_sum <= w2.weight_sum
                                     THEN w1.path ELSE w2.path
                  IN  IF w1.current # w2.current THEN G
                      ELSE RemoveExisting(G, SubSeq(weaker_path, 1, Len(weaker_path) - 1))

\* one iteration of the loop of pop_bubbles_simple, for the key u
PopAt(G, u, max_bubble_len) ==
    IF ~node_exists(G, u) THEN G
    ELSE LET targets == get_successors(G, u)
         IN  IF Len(targets) # 2 THEN G
             ELSE LET w1 == walk_simple_path(G, targets[1], max_bubble_len)
                      w2 == walk_simple_path(G, targets[2], max_bubble_len)
                      weaker_path == IF w1.weight_sum < w2.weight_sum
                                     THEN w1.path ELSE w2.path
                  IN  IF w1.current # w2.current THEN G
                      ELSE RemoveExisting(G, SubSeq(weaker_path, 1, Len(weaker_path) - 1))

\* the loop over list(graph.out_edges.keys()), taken before the first removal
RECURSIVE PopLoop(_, _, _)
PopLoop(G, us, max_bubble_len) ==
    IF us = << >> THEN G
    ELSE PopLoop(PopAt(G, Head(us), max_bubble_len), Tail(us), max_bubble_len)

pop_bubbles_simple(G, max_bubble_len) == PopLoop(G, OutKeys(G), max_bubble_len)

(***************************************************************************)
(* Specification BubbleSpec: pop_bubbles_simple on a simple bubble.  Node  *)
(* A branches into two chains of n1 and n2 interior nodes that meet again  *)
(* at node B; A may have a predecessor P and B a successor Q.  The branch  *)
(* listed first among the successors of A is inp.first.                    *)
(***************************************************************************)
MaxBranch == 2

BubbleWeights == {1, 3}

Digit == <<"1", "2", "3", "4", "5", "6", "7", "8", "9">>

NodeA == <<"A", "0">>

NodeB == <<"B", "0">>

NodeP == <<"P", "0">>

NodeQ == <<"Q", "0">>

\* the i-th interior node of branch b
Interior(b, i) == <<IF b = 1 THEN "X" ELSE "Y", Digit[i]>>

\* the nodes of branch b from A to B, n interior nodes
BranchNodes(b, n) ==
    <<NodeA>> \o [i \in 1..n |-> Interior(b, i)] \o <<NodeB>>

\* the edges of branch b with the weights ws, as add_edge arguments
BranchEdges(b, ws) ==
    LET ns == BranchNodes(b, Len(ws) - 1)
    IN  [i \in 1..Len(ws) |-> <<ns[i], ns[i + 1], ws[i]>>]

BubbleEdges(b) ==
    LET e1   == BranchEdges(1, b.w1)
        e2   == BranchEdges(2, b.w2)
        fst  == IF b.first = 1 THEN e1 ELSE e2
        snd  == IF b.first = 1 THEN e2 ELSE e1
    IN  (IF b.tails THEN <<(<<NodeP, NodeA, 1>>)>> ELSE << >>)
        \o <<fst[1], snd[1]>> \o Tail(fst) \o Tail(snd)
        \o (IF b.tails THEN <<(<<NodeB, NodeQ, 1>>)>> ELSE << >>)

WeightLists == UNION {[1..n + 1 -> BubbleWeights] : n \in 1..MaxBranch}

BubbleInit ==
    /\ inp \in [kind : {"bubble"}, w1 : WeightLists, w2 : WeightLists, first : {1, 2},
                 tails : BOOLEAN, max_bubble_len : 1..MaxBranch + 1]
    /\ graph = AddAll(EmptyGraph, BubbleEdges(inp))
    /\ op = NoOp
    /\ out = NoOut
    /\ pc = "bubble"

PopBubbles ==
    /\ pc = "bubble"
    /\ graph' = pop_bubbles_simple(graph, inp.max_bubble_len)
    /\ op' = [name |-> "pop_bubbles_simple", u |-> NoNode, v |-> NoNode,
              w |-> inp.max_bubble_len, present |-> graph' # graph]
    /\ pc' = "popped"
    /\ UNCHANGED <<inp, out>>

BubbleNext == PopBubbles

BubbleSpec == BubbleInit /\ [][BubbleNext]_vars

\* both branches are walked to B within max_bubble_len steps
BothWithinLen == Len(inp.w1) - 1 <= inp.max_bubble_len /\ Len(inp.w2) - 1 <= inp.max_bubble_len

InteriorOf(b) == {Interior(b, i) : i \in 1..(Len(IF b = 1 THEN inp.w1 ELSE inp.w2) - 1)}

\* every node and edge of branch b is in the graph with its weight
BranchIntact(b) ==
    \A e \in Range(BranchEdges(b, IF b = 1 THEN inp.w1 ELSE inp.w2)) :
        /\ e[1] \in graph.nodes
        /\ e[2] \in graph.nodes
        /\ get_edge_weight(graph, e[1], e[2]) = e[3]

\* C9: when the total weights of the two branches from A to B differ,
\* pop_bubbles_simple removes every interior node of the lighter branch and
\* leaves the heavier branch, A and B in the graph, whichever is listed first.
C9_LighterBranchRemoved ==
    (pc = "popped" /\ BothWithinLen /\ SumSeq(inp.w1) # SumSeq(inp.w2)) =>
        LET heavy == IF SumSeq(inp.w1) > SumSeq(inp.w2) THEN 1 ELSE 2
            light == 3 - heavy
        IN  /\ InteriorOf(light) \cap graph.nodes = {}
            /\ BranchIntact(heavy)

\* the weight that walk_simple_path accumulates along branch b: the edges
\* after the first one, from the successor of A to B
WalkedWeight(b) == SumSeq(Tail(IF b = 1 THEN inp.w1 ELSE inp.w2))

max_search == 15

\* get_all_edge_weights: the weights of all edges, in dict order
RECURSIVE FlattenWeights(_)
FlattenWeights(oe) ==
    IF oe = << >> THEN << >>
    ELSE [j \in DOMAIN Head(oe).targets |-> Head(oe).targets[j].w] \o FlattenWeights(Tail(oe))

get_all_edge_weights(G) == FlattenWeights(G.out_edges)

\* Counter(weights)[c]
HistCount(weights, c) == Cardinality({i \in DOMAIN weights : weights[i] = c})

\* sorted(S) for a set of integers
RECURSIVE SortedAsc(_)
SortedAsc(S) ==
    IF S = {} THEN << >>
    ELSE LET m == CHOOSE x \in S : \A y \in S : x <= y
         IN  <<m>> \o SortedAsc(S \ {m})

\* the valley scan: for i in range(1, len(counts) - 1); 0 stands for "none found"
RECURSIVE ValleyScan(_, _, _)
ValleyScan(weights, counts, i) ==
    IF i > Len(counts) - 1 THEN 0
    ELSE IF /\ HistCount(weights, counts[i]) < HistCount(weights, counts[i - 1])
            /\ HistCount(weights, counts[i]) < HistCount(weights, counts[i + 1])
         THEN counts[i] + 1
         ELSE ValleyScan(weights, counts, i + 1)

\* estimate_coverage_cutoff_valley with the fallback thresholds compared by >=
estimate_coverage_cutoff_valley_inclusive(G) ==
    LET weights == get_all_edge_weights(G)
        counts  == SortedAsc({c \in Range(weights) : 1 <= c /\ c <= max_search})
        valley  == IF Len(counts) < 3 THEN 0 ELSE ValleyScan(weights, counts, 2)
        total   == Len(weights)
        singletons == HistCount(weights, 1)
    IN  IF weights = << >> THEN 2
        ELSE IF Len(counts) < 3 THEN 2
        ELSE IF valley # 0 THEN valley
        ELSE IF 10 * singletons >= 6 * total THEN 4
        ELSE IF 10 * singletons >= 4 * total THEN 3
        ELSE 2

estimate_coverage_cutoff_valley(G) ==
    LET weights == get_all_edge_weights(G)
        counts  == SortedAsc({c \in Range(weights) : 1 <= c /\ c <= max_search})
        valley  == IF Len(counts) < 3 THEN 0 ELSE ValleyScan(weights, counts, 2)
        total   == Len(weights)
        singletons == HistCount(weights, 1)
    IN  IF weights = << >> THEN 2
        ELSE IF Len(counts) < 3 THEN 2
        ELSE IF valley # 0 THEN valley
        \* singleton_ratio > 0.6, > 0.4 on exact quotients
        ELSE IF 10 * singletons > 6 * total THEN 4
        ELSE IF 10 * singletons > 4 * total THEN 3
        ELSE 2

\* the edges (u, v) with weight < min_coverage, in dict order
RECURSIVE LowEdges(_, _)
LowEdges(oe, min_coverage) ==
    IF oe = << >> THEN << >>
    ELSE LET low == SelectSeq(Head(oe).targets, LAMBDA t : t.w < min_coverage)
         IN  [j \in DOMAIN low |-> <<Head(oe).u, low[j].v>>] \o LowEdges(Tail(oe), min_coverage)

RECURSIVE RemoveEdges(_, _)
RemoveEdges(G, es) ==
    IF es = << >> THEN G
    ELSE RemoveEdges(remove_edge(G, Head(es)[1], Head(es)[2]), Tail(es))

\* apply_coverage_cutoff without the removal of isolated nodes
apply_coverage_cutoff_edges_only(G, min_coverage, ord) ==
    RemoveEdges(G, LowEdges(G.out_edges, min_coverage))

apply_coverage_cutoff(G, min_coverage, ord) ==
    LET G1 == RemoveEdges(G, LowEdges(G.out_edges, min_coverage))
        isolated == {n \in G1.nodes : InDeg(G1, n) = 0 /\ OutDeg(G1, n) = 0}
    IN  remove_nodes(G1, ListOf(isolated, ord))

(***************************************************************************)
(* Repeat Resolver: Tour Bus                                               *)
(***************************************************************************)
tourbus_max_len == 15

tourbus_max_iterations == 10

\* the for loop of walk_path_with_coverage; w = [current, path, total_cov]
RECURSIVE WalkCovLoop(_, _, _, _)
WalkCovLoop(G, step, max_len, w) ==
    IF step >= max_len THEN w
    ELSE IF step > 0 /\ (OutDeg(G, w.current) # 1 \/ InDeg(G, w.current) > 1) THEN w
    ELSE LET successors == get_successors(G, w.current)
         IN  IF successors = << >> THEN w
             ELSE LET nxt == successors[1]
                  IN  WalkCovLoop(G, step + 1, max_len,
                          [current   |-> nxt,
                           path      |-> Append(w.path, nxt),
                           total_cov |-> w.total_cov + get_edge_weight(G, w.current, nxt)])

\* returns [path, cov]
walk_path_with_coverage(G, start, max_len) ==
    LET w == WalkCovLoop(G, 0, max_len,
                         [current |-> start, path |-> <<start>>, total_cov |-> 0])
    IN  [path |-> w.path, cov |-> w.total_cov]

\* the list of [path, cov], one per successor of branch_node
find_bubble_paths(G, branch_node, max_bubble_len) ==
    LET successors == get_successors(G, branch_node)
    IN  IF Len(successors) < 2 THEN << >>
        ELSE [i \in DOMAIN successors |->
                 LET r == walk_path_with_coverage(G, successors[i], max_bubble_len)
                 IN  [path |-> r.path,
                      cov  |-> r.cov + get_edge_weight(G, branch_node, successors[i])]]

NoMerge == <<"none">>

\* the common end node, or NoMerge for None
paths_merge_at_same_node(paths) ==
    IF Len(paths) < 2 THEN NoMerge
    ELSE LET end_nodes == {paths[i].path[Len(paths[i].path)] : i \in DOMAIN paths}
         IN  IF Cardinality(end_nodes) = 1 THEN CHOOSE n \in end_nodes : TRUE ELSE NoMerge

\* the index of the first path with the lowest coverage
WeakestIdx(paths) ==
    CHOOSE i \in DOMAIN paths :
        /\ \A j \in DOMAIN paths : paths[i].cov <= paths[j].cov
        /\ \A j \in 1..(i - 1) : paths[j].cov > paths[i].cov

\* for node in nodes_to_remove: remove it if it exists and has in = 0 or out = 0
RECURSIVE RemoveDeadEnds(_, _)
RemoveDeadEnds(G, ns) ==
    IF ns = << >> THEN G
    ELSE LET node == Head(ns)
         IN  RemoveDeadEnds(
                 IF node_exists(G, node) /\ (InDeg(G, node) = 0 \/ OutDeg(G, node) = 0)
                 THEN remove_node(G, node) ELSE G,
                 Tail(ns))

\* returns [graph, removed]
remove_weakest_bubble_path(G, paths, branch_node, ord) ==
    IF Len(paths) < 2 THEN [graph |-> G, removed |-> FALSE]
    ELSE LET weakest_idx  == WeakestIdx(paths)
             weakest_path == paths[weakest_idx].path
             G1 == remove_edge(G, branch_node, weakest_path[1])
             others == UNION {Range(paths[i].path) : i \in DOMAIN paths \ {weakest_idx}}
             nodes_to_remove ==
                 Range(SubSeq(weakest_path, 1, Len(weakest_path) - 1)) \ others
         IN  [graph |-> RemoveDeadEnds(G1, ListOf(nodes_to_remove, ord)), removed |-> TRUE]

\* the loop over branch_nodes of one round; st = [graph, resolved]
RECURSIVE TourBusRound(_, _, _, _)
TourBusRound(st, branches, max_bubble_len, ord) ==
    IF branches = << >> THEN st
    ELSE LET G      == st.graph
             branch == Head(branches)
             paths  == find_bubble_paths(G, branch, max_bubble_len)
             merge_node == paths_merge_at_same_node(paths)
             r      == remove_weakest_bubble_path(G, paths, branch, ord)
             skip   == \/ ~node_exists(G, branch)
                       \/ OutDeg(G, branch) < 2
                       \/ Len(paths) < 2
                       \* "if merge_node": None and the empty string are false
                       \/ merge_node = NoMerge
                       \/ merge_node = << >>
         IN  TourBusRound(
                 IF skip \/ ~r.removed THEN st
                 ELSE [graph |-> r.graph, resolved |-> st.resolved + 1],
                 Tail(branches), max_bubble_len, ord)

\* for iteration in range(max_iterations)
RECURSIVE TourBusLoop(_, _, _, _)
TourBusLoop(G, iterations, max_bubble_len, ord) ==
    IF iterations = 0 THEN G
    ELSE LET branch_nodes == SelectSeq(ListOf(G.nodes, ord), LAMBDA n : OutDeg(G, n) >= 2)
             st == TourBusRound([graph |-> G, resolved |-> 0], branch_nodes,
                                max_bubble_len, ord)
         IN  IF st.resolved = 0 THEN st.graph
             ELSE TourBusLoop(st.graph, iterations - 1, max_bubble_len, ord)

tour_bus(G, max_bubble_len, max_iterations, ord) ==
    TourBusLoop(G, max_iterations, max_bubble_len, ord)

\* velvet_style_optimization(graph, auto_cutoff=True, use_tourbus=True)
velvet_style_optimization(G, ord) ==
    tour_bus(apply_coverage_cutoff(G, estimate_coverage_cutoff_valley(G), ord),
             tourbus_max_len, tourbus_max_iterations, ord)

(***************************************************************************)
(* Tip removal.  A traced path of None is the empty list.  A coverage      *)
(* ratio is a pair [num, den] of integers.                                 *)
(***************************************************************************)
default_min_coverage_ratio == [num |-> 1, den |-> 10]

tips_max_iterations == 20

\* the while loop of trace_tip_backward
RECURSIVE TraceBackLoop(_, _, _, _)
TraceBackLoop(G, path, current, max_len) ==
    IF Len(path) > max_len THEN << >>
    ELSE LET preds == get_predecessors(G, current)
         IN  IF Len(preds) # 1 THEN << >>
             ELSE IF OutDeg(G, preds[1]) > 1 THEN Append(path, preds[1])
             ELSE TraceBackLoop(G, Append(path, preds[1]), preds[1], max_len)

\* a bug of trace_tip_backward: the loop runs once more than max_len allows
trace_tip_backward_one_longer(G, start, max_len) ==
    TraceBackLoop(G, <<start>>, start, max_len + 1)

trace_tip_backward(G, start, max_len) == TraceBackLoop(G, <<start>>, start, max_len)

\* the while loop of trace_tip_forward
RECURSIVE TraceFwdLoop(_, _, _, _)
TraceFwdLoop(G, path, current, max_len) ==
    IF Len(path) > max_len THEN << >>
    ELSE LET successors == get_successors(G, current)
         IN  IF Len(successors) # 1 THEN << >>
             ELSE IF InDeg(G, successors[1]) > 1 THEN Append(path, successors[1])
             ELSE TraceFwdLoop(G, Append(path, successors[1]), successors[1], max_len)

trace_tip_forward(G, start, max_len) == TraceFwdLoop(G, <<start>>, start, max_len)

calculate_path_coverage(G, path) ==
    SumSeq([i \in 1..(Len(path) - 1) |-> get_edge_weight(G, path[i], path[i + 1])])

MaxOf(S) == IF S = {} THEN 0 ELSE CHOOSE x \in S : \A y \in S : y <= x

should_remove_tip(G, path, min_coverage_ratio) ==
    IF Len(path) < 2 THEN TRUE
    ELSE LET tip_coverage == calculate_path_coverage(G, path)
             branch_node  == path[Len(path)]
             tip_neighbor == path[Len(path) - 1]
             alt_out == {get_edge_weight(G, branch_node, t) :
                            t \in Range(get_successors(G, branch_node)) \ {tip_neighbor}}
             alt_in  == {get_edge_weight(G, p, branch_node) :
                            p \in Range(get_predecessors(G, branch_node)) \ {tip_neighbor}}
             alt_coverage == MaxOf(alt_out \cup alt_in \cup {0})
         IN  IF alt_coverage > 0
             \* tip_coverage / alt_coverage < min_coverage_ratio
             THEN tip_coverage * min_coverage_ratio.den < min_coverage_ratio.num * alt_coverage
             ELSE TRUE

\* the loop over list(graph.nodes) of one iteration; returns nodes_to_remove
RECURSIVE TipScan(_, _, _, _, _)
TipScan(G, todo, nodes_to_remove, tip_max_len, min_coverage_ratio) ==
    IF todo = << >> THEN nodes_to_remove
    ELSE LET node    == Head(todo)
             in_deg  == InDeg(G, node)
             out_deg == OutDeg(G, node)
             path == IF out_deg = 0 /\ in_deg > 0 THEN trace_tip_backward(G, node, tip_max_len)
                     ELSE IF in_deg = 0 /\ out_deg > 0
                          THEN trace_tip_forward(G, node, tip_max_len)
                          ELSE << >>
             hit  == /\ node \notin nodes_to_remove
                     /\ node_exists(G, node)
                     /\ path # << >>
                     /\ should_remove_tip(G, path, min_coverage_ratio)
         IN  TipScan(G, Tail(todo),
                     IF hit THEN nodes_to_remove \cup Range(SubSeq(path, 1, Len(path) - 1))
                     ELSE nodes_to_remove,
                     tip_max_len, min_coverage_ratio)

\* for iteration in range(max_iterations)
RECURSIVE TipLoop(_, _, _, _, _)
TipLoop(G, iterations, tip_max_len, min_coverage_ratio, ord) ==
    IF iterations = 0 THEN G
    ELSE LET nodes_to_remove ==
                 TipScan(G, ListOf(G.nodes, ord), {}, tip_max_len, min_coverage_ratio)
         IN  IF nodes_to_remove = {} THEN G
             ELSE TipLoop(remove_nodes(G, ListOf(nodes_to_remove, ord)), iterations - 1,
                          tip_max_len, min_coverage_ratio, ord)

\* a bug of remove_tips: one pass only, whatever max_iterations is
remove_tips_one_pass(G, tip_max_len, min_coverage_ratio, max_iterations, ord) ==
    TipLoop(G, 1, tip_max_len, min_coverage_ratio, ord)

remove_tips(G, tip_max_len, min_coverage_ratio, max_iterations, ord) ==
    TipLoop(G, max_iterations, tip_max_len, min_coverage_ratio, ord)

(***************************************************************************)
(* Traversal.  used_edges and edges are sets of pairs <<u, v>>.            *)
(***************************************************************************)
find_start_nodes(G, ord) ==
    SelectSeq(ListOf(G.nodes, ord), LAMBDA n : InDeg(G, n) # 1 \/ OutDeg(G, n) # 1)

\* the while loop of walk_forward; w = [path, edges, current]
RECURSIVE WalkForwardLoop(_, _, _)
WalkForwardLoop(G, used_edges, w) ==
    IF ~HasKey(G, w.current) THEN w
    ELSE LET available == SelectSeq(get_successors(G, w.current),
                              LAMBDA t : /\ <<w.current, t>> \notin used_edges
                                         /\ <<w.current, t>> \notin w.edges)
         IN  IF Len(available) # 1 THEN w
             ELSE LET next_node == available[1]
                      w1 == [path    |-> Append(w.path, next_node),
                             edges   |-> w.edges \cup {<<w.current, next_node>>},
                             current |-> next_node]
                  IN  IF InDeg(G, next_node) > 1 /\ Len(w.path) > 1
                      THEN [w1 EXCEPT !.current = w.current]
                      ELSE IF OutDeg(G, next_node) > 1 THEN [w1 EXCEPT !.current = w.current]
                      ELSE WalkForwardLoop(G, used_edges, w1)

\* returns [path, edges]
walk_forward(G, start, used_edges) ==
    LET w == WalkForwardLoop(G, used_edges, [path |-> <<start>>, edges |-> {}, current |-> start])
    IN  [path |-> w.path, edges |-> w.edges]

\* the while loop of walk_backward; w = [path, edges, current]
RECURSIVE WalkBackwardLoop(_, _, _)
WalkBackwardLoop(G, used_edges, w) ==
    LET available == SelectSeq(get_predecessors(G, w.current),
                         LAMBDA q : /\ <<q, w.current>> \notin used_edges
                                    /\ <<q, w.current>> \notin w.edges)
    IN  IF Len(available) # 1 THEN w
        ELSE LET pred == available[1]
                 w1 == [path    |-> Append(w.path, pred),
                        edges   |-> w.edges \cup {<<pred, w.current>>},
                        current |-> pred]
             IN  IF OutDeg(G, pred) > 1 /\ w.path # << >>
                 THEN [w1 EXCEPT !.current = w.current]
                 ELSE IF InDeg(G, pred) > 1 THEN [w1 EXCEPT !.current = w.current]
                 ELSE WalkBackwardLoop(G, used_edges, w1)

\* returns [path, edges]
walk_backward(G, start, used_edges) ==
    LET w == WalkBackwardLoop(G, used_edges, [path |-> << >>, edges |-> {}, current |-> start])
    IN  [path |-> w.path, edges |-> w.edges]

\* path[::-1]
Reverse(path) == [i \in 1..Len(path) |-> path[Len(path) + 1 - i]]

\* a bug of walk_unitig_bidirectional: backward_path is joined without [::-1]
walk_unitig_bidirectional_unreversed(G, start, used_edges) ==
    LET f == walk_forward(G, start, used_edges)
        b == walk_backward(G, start, used_edges)
    IN  [path |-> b.path \o f.path, edges |-> f.edges \cup b.edges]

\* returns [path, edges]
walk_unitig_bidirectional(G, start, used_edges) ==
    LET f == walk_forward(G, start, used_edges)
        b == walk_backward(G, start, used_edges)
    IN  [path |-> Reverse(b.path) \o f.path, edges |-> f.edges \cup b.edges]

\* the result that stands for the IndexError of node[-1] on an empty node
IndexError == <<"IndexError">>

\* sequence += node[-1] for every node of nodes
RECURSIVE AppendLast(_, _)
AppendLast(sequence, nodes) ==
    IF nodes = << >> THEN sequence
    ELSE IF Head(nodes) = << >> THEN IndexError
    ELSE AppendLast(Append(sequence, Head(nodes)[Len(Head(nodes))]), Tail(nodes))

\* a bug of path_to_sequence: the first node is dropped from the sequence
path_to_sequence_tail_only(path) ==
    IF path = << >> THEN << >>
    ELSE IF Len(path) = 1 THEN path[1]
    ELSE AppendLast(<< >>, Tail(path))

path_to_sequence(path) ==
    IF path = << >> THEN << >>
    ELSE IF Len(path) = 1 THEN path[1]
    ELSE AppendLast(path[1], Tail(path))

\* the loop over graph.out_edges[start]; st = [contigs, used_edges, paths]
RECURSIVE TargetLoop(_, _, _, _, _)
TargetLoop(G, start, targets, st, min_contig_len) ==
    IF targets = << >> THEN st
    ELSE IF <<start, Head(targets)>> \in st.used_edges
         THEN TargetLoop(G, start, Tail(targets), st, min_contig_len)
         ELSE LET r   == walk_unitig_bidirectional(G, start, st.used_edges)
                  seq == path_to_sequence(r.path)
              IN  TargetLoop(G, start, Tail(targets),
                      [contigs    |-> IF Len(seq) >= min_contig_len
                                      THEN Append(st.contigs, seq) ELSE st.contigs,
                       used_edges |-> st.used_edges \cup r.edges,
                       paths      |-> Append(st.paths, r.path)],
                      min_contig_len)

\* the loop over the start nodes (phase 1) or over graph.nodes (phase 2)
RECURSIVE StartLoop(_, _, _, _)
StartLoop(G, starts, st, min_contig_len) ==
    IF starts = << >> THEN st
    ELSE StartLoop(G, Tail(starts),
             IF ~HasKey(G, Head(starts)) THEN st
             ELSE TargetLoop(G, Head(starts), get_successors(G, Head(starts)), st,
                             min_contig_len),
             min_contig_len)

\* st.paths lists the unitig paths in the order walked, before the length filter
ExtractState(G, min_contig_len, ord) ==
    LET st0 == [contigs |-> << >>, used_edges |-> {}, paths |-> << >>]
        st1 == StartLoop(G, find_start_nodes(G, ord), st0, min_contig_len)
    IN  StartLoop(G, ListOf(G.nodes, ord), st1, min_contig_len)

\* list(set(contigs)): the contigs without duplicates, as a set
extract_contigs(G, k, min_contig_len, ord) ==
    Range(ExtractState(G, min_contig_len, ord).contigs)

\* the lengths of the contigs, sorted in descending order
RECURSIVE SortedLengthsDesc(_)
SortedLengthsDesc(contigs) ==
    IF contigs = {} THEN << >>
    ELSE LET c == CHOOSE x \in contigs : \A y \in contigs : Len(y) <= Len(x)
         IN  <<Len(c)>> \o SortedLengthsDesc(contigs \ {c})

\* the N50 loop: the first length at which cumsum >= total / 2
RECURSIVE N50Loop(_, _, _)
N50Loop(lengths, cumsum, total) ==
    IF lengths = << >> THEN 0
    ELSE IF 2 * (cumsum + Head(lengths)) >= total THEN Head(lengths)
    ELSE N50Loop(Tail(lengths), cumsum + Head(lengths), total)

\* a bug of contig_stats: N50 is taken where cumsum > total / 2
RECURSIVE N50LoopStrict(_, _, _)
N50LoopStrict(lengths, cumsum, total) ==
    IF lengths = << >> THEN 0
    ELSE IF 2 * (cumsum + Head(lengths)) > total THEN Head(lengths)
    ELSE N50LoopStrict(Tail(lengths), cumsum + Head(lengths), total)

contig_stats_strict_half(contigs) ==
    IF contigs = {}
    THEN [num_contigs |-> 0, total_length |-> 0, longest |-> 0, shortest |-> 0, n50 |-> 0]
    ELSE LET lengths == SortedLengthsDesc(contigs)
             total   == SumSeq(lengths)
         IN  [num_contigs  |-> Cardinality(contigs),
              total_length |-> total,
              longest      |-> lengths[1],
              shortest     |-> lengths[Len(lengths)],
              n50          |-> N50LoopStrict(lengths, 0, total)]

\* mean_length (a rounded float) is not part of the record
contig_stats(contigs) ==
    IF contigs = {}
    THEN [num_contigs |-> 0, total_length |-> 0, longest |-> 0, shortest |-> 0, n50 |-> 0]
    ELSE LET lengths == SortedLengthsDesc(contigs)
             total   == SumSeq(lengths)
         IN  [num_contigs  |-> Cardinality(contigs),
              total_length |-> total,
              longest      |-> lengths[1],
              shortest     |-> lengths[Len(lengths)],
              n50          |-> N50Loop(lengths, 0, total)]

(***************************************************************************)
(* k-mer counting.  A read is a list of letters; the result is the k-mer   *)
(* mapping in insertion order, or the error the ValueError stands for.     *)
(***************************************************************************)
iter_kmers(read, k) ==
    IF Len(read) < k THEN << >>
    ELSE [i \in 1..(Len(read) - k + 1) |-> SubSeq(read, i, i + k - 1)]

\* kmer_counts[kmer] += 1 for every k-mer of kmers
RECURSIVE CountEach(_, _)
CountEach(d, kmers) ==
    IF kmers = << >> THEN d
    ELSE LET kmer == Head(kmers)
             d1 == IF \E i \in DOMAIN d : d[i].kmer = kmer
                   THEN [i \in DOMAIN d |->
                            IF d[i].kmer = kmer THEN [d[i] EXCEPT !.count = @ + 1] ELSE d[i]]
                   ELSE Append(d, [kmer |-> kmer, count |-> 1])
         IN  CountEach(d1, Tail(kmers))

\* the loop over reads
RECURSIVE CountLoop(_, _, _)
CountLoop(d, reads, k) ==
    IF reads = << >> THEN d
    ELSE IF k > Len(Head(reads)) THEN CountLoop(d, Tail(reads), k)
    ELSE CountLoop(CountEach(d, iter_kmers(Head(reads), k)), Tail(reads), k)

count_kmers(reads, k) ==
    IF reads = << >> THEN [kind |-> "error", kmer_counts |-> << >>]
    ELSE [kind |-> "ok", kmer_counts |-> CountLoop(<< >>, reads, k)]

(***************************************************************************)
(* Specification PipelineSpec: one run of run_assembly from k-mer counting *)
(* to the contig statistics, on depth error-free full-length reads of one  *)
(* sequence.  Read correction and the report files are not modelled.  pc   *)
(* is the step of run_assembly that comes next, op.name the function that  *)
(* run_assembly called last.                                               *)
(***************************************************************************)
MaxSeqLen == 5

MaxDepth == 2

Alphabet == {"A", "C"}

KmerLengths == {2, 3}

MinKmerCounts == {1, 2}

MinComponentSizes == {2, 5}

TipMaxLens == {1, 3}

MinContigLens == {1, 5}

default_max_bubble_len == 5

SeqU == UNION {[1..n -> Alphabet] : n \in 2..MaxSeqLen}

NoStats == [num_contigs |-> 0, total_length |-> 0, longest |-> 0, shortest |-> 0, n50 |-> 0]

PipelineInit ==
    /\ graph = EmptyGraph
    /\ op = NoOp
    /\ out = [kind |-> "none", built |-> EmptyGraph, contigs |-> {}, stats |-> NoStats]
    /\ pc = "count"
    /\ inp \in [kind : {"pipeline"}, seq : SeqU, kmer_length : KmerLengths,
                 depth : 1..MaxDepth, min_kmer_count : MinKmerCounts,
                 min_component_size : MinComponentSizes, tip_max_len : TipMaxLens,
                 pop_bubbles : BOOLEAN, max_bubble_len : {default_max_bubble_len},
                 min_contig_len : MinContigLens]

\* steps 2 and 3: count_kmers and build_graph_from_kmers
StepBuild ==
    /\ pc = "count"
    /\ LET reads == [i \in 1..inp.depth |-> inp.seq]
           c == count_kmers(reads, inp.kmer_length)
           r == IF c.kind = "error" THEN BuildError("EmptyReads")
                ELSE build_graph_from_kmers(c.kmer_counts, inp.kmer_length,
                                            inp.min_kmer_count)
       IN  /\ graph' = r.graph
           /\ out' = [out EXCEPT !.kind = r.kind, !.built = r.graph]
           /\ pc' = IF r.kind = "ok" THEN "optimize" ELSE "failed"
    /\ op' = [NoOp EXCEPT !.name = "build_graph_from_kmers"]
    /\ UNCHANGED inp

StepOptimize ==
    /\ pc = "optimize"
    /\ \E ord \in Orders(graph.nodes) : graph' = velvet_style_optimization(graph, ord)
    /\ pc' = "islands"
    /\ op' = [NoOp EXCEPT !.name = "velvet_style_optimization"]
    /\ UNCHANGED <<inp, out>>

StepIslands ==
    /\ pc = "islands"
    /\ \E ord \in Orders(graph.nodes) :
           graph' = remove_islands(graph, inp.min_component_size, ord)
    /\ pc' = "tips"
    /\ op' = [NoOp EXCEPT !.name = "remove_islands"]
    /\ UNCHANGED <<inp, out>>

StepTips ==
    /\ pc = "tips"
    /\ \E ord \in Orders(graph.nodes) :
           graph' = remove_tips(graph, inp.tip_max_len, default_min_coverage_ratio,
                                tips_max_iterations, ord)
    /\ pc' = "bubbles"
    /\ op' = [NoOp EXCEPT !.name = "remove_tips"]
    /\ UNCHANGED <<inp, out>>

StepBubbles ==
    /\ pc = "bubbles"
    /\ graph' = IF inp.pop_bubbles THEN pop_bubbles_simple(graph, inp.max_bubble_len)
                ELSE graph
    /\ pc' = "extract"
    /\ op' = IF inp.pop_bubbles THEN [NoOp EXCEPT !.name = "pop_bubbles_simple"] ELSE op
    /\ UNCHANGED <<inp, out>>

StepExtract ==
    /\ pc = "extract"
    /\ \E ord \in Orders(graph.nodes) :
           out' = [out EXCEPT !.contigs =
                       extract_contigs(graph, inp.kmer_length, inp.min_contig_len, ord)]
    /\ pc' = "stats"
    /\ op' = [NoOp EXCEPT !.name = "extract_contigs"]
    /\ UNCHANGED <<graph, inp>>

StepStats ==
    /\ pc = "stats"
    /\ out' = [out EXCEPT !.stats = contig_stats(out.contigs)]
    /\ pc' = "done"
    /\ op' = [NoOp EXCEPT !.name = "contig_stats"]
    /\ UNCHANGED <<graph, inp>>

PipelineNext ==
    \/ StepBuild
    \/ StepOptimize
    \/ StepIslands
    \/ StepTips
    \/ StepBubbles
    \/ StepExtract
    \/ StepStats

PipelineSpec == PipelineInit /\ [][PipelineNext]_vars

\* the (k-1)-mers of the sequence, in order
Kminus1mers(seq, k) == [i \in 1..(Len(seq) - k + 2) |-> SubSeq(seq, i, i + k - 2)]

\* the sequence is at least one k-mer long and repeats no (k-1)-mer
NoRepeat(seq, k) ==
    /\ Len(seq) >= k
    /\ \A i, j \in 1..(Len(seq) - k + 2) :
           Kminus1mers(seq, k)[i] = Kminus1mers(seq, k)[j] => i = j

\* the weighted edges of a graph
WeightedEdges(G) == {<<e[1], e[2], get_edge_weight(G, e[1], e[2])>> : e \in EdgeSet(G)}

ChainSize == Len(inp.seq) - inp.kmer_length + 2

\* even coverage of a repeat-free sequence, every k-mer retained, thresholds within the chain
EvenChainInput ==
    /\ NoRepeat(inp.seq, inp.kmer_length)
    /\ inp.depth >= inp.min_kmer_count
    /\ inp.min_component_size <= ChainSize
    /\ inp.min_contig_len <= Len(inp.seq)

\* the built graph is the chain, no later step removes anything, one contig comes out
ChainSurvives ==
    /\ pc \notin {"count", "failed"} =>
           /\ Cardinality(out.built.nodes) = ChainSize
           /\ WeightedEdges(out.built) =
                  {<<Kminus1mers(inp.seq, inp.kmer_length)[i],
                     Kminus1mers(inp.seq, inp.kmer_length)[i + 1], inp.depth>> :
                       i \in 1..(ChainSize - 1)}
           /\ graph.nodes = out.built.nodes
           /\ WeightedEdges(graph) = WeightedEdges(out.built)
    /\ pc \in {"stats", "done"} => out.contigs = {inp.seq}
    /\ pc = "done" =>
           /\ out.stats.num_contigs = 1
           /\ out.stats.n50 = Len(inp.seq)
           /\ out.stats.total_length = Len(inp.seq)

\* C8 as stated: on an evenly covered repeat-free sequence whose k-mers all
\* pass min_kmer_count, with min_component_size and min_contig_len within the
\* chain, the pipeline removes nothing and yields exactly one contig of length
\* L with n50 = total_length = L.  Fails at a common count of 1.
C8_EvenChainOneContig == EvenChainInput => ChainSurvives

\* C8 (amended): the same, for a common k-mer count of at least 2, the
\* coverage cutoff that estimate_coverage_cutoff_valley returns for a uniform
\* histogram.
C8_EvenChainDepthTwoOneContig == (EvenChainInput /\ inp.depth >= 2) => ChainSurvives

\* C8 witness: a finished run on a 4-node chain at depth 2, with bubble popping on
C8_Witness ==
    /\ pc = "done"
    /\ EvenChainInput
    /\ inp.depth >= 2
    /\ inp.kmer_length = 3
    /\ ChainSize >= 4
    /\ inp.pop_bubbles
    /\ out.stats.n50 = Len(inp.seq)

(***************************************************************************)
(* Specification TipSpec: one call of remove_tips on every graph that      *)
(* add_edge builds from at most MaxTipEdges of the candidate edges (the    *)
(* forward edges and two self-loops over four nodes), each of weight 1 or  *)
(* 3.  inp records the arguments of the call and the graph before it, out  *)
(* the number of passes of the call that removed nodes.                    *)
(***************************************************************************)
MaxTipEdges == 4

TipNodes == <<(<<"A">>), (<<"C">>), (<<"G">>), (<<"T">>)>>

TipWeights == {1, 3}

TipMaxLens2 == {0, 1, 2}

TipRatios == {default_min_coverage_ratio, [num |-> 1, den |-> 2]}

TipIterations == {1, tips_max_iterations}

\* the candidate edges <<i, j>>, by node index, in the order they are added
TipCandidates ==
    <<(<<1, 1>>), (<<1, 2>>), (<<1, 3>>), (<<2, 3>>), (<<2, 4>>), (<<3, 4>>), (<<4, 4>>)>>

\* the add_edge arguments for the chosen candidates E with the weights wt
TipEdges(E, wt) ==
    LET chosen == SelectSeq(TipCandidates, LAMBDA e : e \in E)
    IN  [i \in DOMAIN chosen |->
            <<TipNodes[chosen[i][1]], TipNodes[chosen[i][2]], wt[chosen[i]]>>]

TipInit ==
    /\ \E E \in SUBSET Range(TipCandidates) :
           /\ Cardinality(E) <= MaxTipEdges
           /\ \E wt \in [E -> TipWeights] : graph = AddAll(EmptyGraph, TipEdges(E, wt))
    /\ op = NoOp
    /\ inp = NoInp
    /\ out = NoOut
    /\ pc = "tips"

\* the number of passes of remove_tips that removed nodes
RECURSIVE TipPasses(_, _, _, _, _)
TipPasses(G, iterations, tip_max_len, min_coverage_ratio, ord) ==
    IF iterations = 0 THEN 0
    ELSE LET nodes_to_remove ==
                 TipScan(G, ListOf(G.nodes, ord), {}, tip_max_len, min_coverage_ratio)
         IN  IF nodes_to_remove = {} THEN 0
             ELSE 1 + TipPasses(remove_nodes(G, ListOf(nodes_to_remove, ord)),
                                iterations - 1, tip_max_len, min_coverage_ratio, ord)

RemoveTips ==
    /\ pc = "tips"
    /\ \E t \in TipMaxLens2, r \in TipRatios, m \in TipIterations,
          ord \in Orders(graph.nodes) :
           /\ graph' = remove_tips(graph, t, r, m, ord)
           /\ inp' = [kind |-> "tips", before |-> graph, tip_max_len |-> t,
                      min_coverage_ratio |-> r, max_iterations |-> m]
           /\ out' = [kind |-> "tips", passes |-> TipPasses(graph, m, t, r, ord)]
    /\ op' = [name |-> "remove_tips", u |-> NoNode, v |-> NoNode, w |-> 0,
              present |-> graph' # graph]
    /\ pc' = "tipped"

TipNext == RemoveTips

TipSpec == TipInit /\ [][TipNext]_vars

\* a second call with the same arguments, in any iteration order, changes nothing
SecondTipCallIsNoOp ==
    \A ord \in Orders(graph.nodes) :
        remove_tips(graph, inp.tip_max_len, inp.min_coverage_ratio, inp.max_iterations,
                    ord) = graph

\* the call ended because a pass found no tip, not because max_iterations ran out
EndedBeforeCap == out.passes < inp.max_iterations

\* C11 as stated: for every graph and all arguments, calling remove_tips again
\* on the graph it returned removes no node and no edge.
C11_TipsConverge == pc = "tipped" => SecondTipCallIsNoOp

\* C11 (amended): calling remove_tips again on the graph it returned removes
\* no node and no edge, provided the first call ended before its
\* max_iterations cap.
C11_TipsConvergeBeforeCap == (pc = "tipped" /\ EndedBeforeCap) => SecondTipCallIsNoOp

\* C11 witness: a call with the default cap that removed tips in two passes
C11_Witness ==
    /\ pc = "tipped"
    /\ inp.max_iterations = tips_max_iterations
    /\ out.passes = 2
    /\ graph.nodes # {}

\* x is a dead end of G (a sink tip start); otherwise a tip starts at a source
IsSink(G, x) == OutDeg(G, x) = 0 /\ InDeg(G, x) > 0

IsSource(G, x) == InDeg(G, x) = 0 /\ OutDeg(G, x) > 0

\* the candidate tip that remove_tips traces from x: the path from x to its
\* anchor, or the empty list when x starts no tip
CandidateTip(G, x, tip_max_len) ==
    IF IsSink(G, x) THEN trace_tip_backward(G, x, tip_max_len)
    ELSE IF IsSource(G, x) THEN trace_tip_forward(G, x, tip_max_len)
    ELSE << >>

\* the sum of the weights of the edges of G that join consecutive nodes of the
\* tip: they point towards x on a sink tip and away from x on a source tip
TipWeight(G, x, path) ==
    SumSeq([i \in 1..(Len(path) - 1) |->
               IF IsSink(G, x) THEN get_edge_weight(G, path[i + 1], path[i])
               ELSE get_edge_weight(G, path[i], path[i + 1])])

\* the maximum weight among the edges at the anchor that do not join it to the tip
AltWeight(G, path) ==
    LET anchor   == path[Len(path)]
        neighbor == path[Len(path) - 1]
    IN  MaxOf({get_edge_weight(G, anchor, n) :
                   n \in Range(get_successors(G, anchor)) \ {neighbor}}
              \cup {get_edge_weight(G, n, anchor) :
                        n \in Range(get_predecessors(G, anchor)) \ {neighbor}})

\* the tip from x has an alternative at its anchor and weighs at least
\* min_coverage_ratio times that alternative
HeavyTip(G, x, tip_max_len, r) ==
    LET path == CandidateTip(G, x, tip_max_len)
    IN  /\ path # << >>
        /\ AltWeight(G, path) > 0
        /\ TipWeight(G, x, path) * r.den >= r.num * AltWeight(G, path)

\* C17: in one pass of remove_tips, a sink tip or source tip whose anchor has
\* an alternative edge, and whose accumulated edge weight is at least
\* min_coverage_ratio times the maximum alternative weight, is kept.
C17_HeavyTipKept ==
    (pc = "tipped" /\ inp.max_iterations = 1) =>
        \A x \in inp.before.nodes :
            HeavyTip(inp.before, x, inp.tip_max_len, inp.min_coverage_ratio)
                => x \in graph.nodes

PredSet(G, n) == {m \in G.nodes : <<m, n>> \in EdgeSet(G)}

SuccSet(G, n) == {m \in G.nodes : <<n, m>> \in EdgeSet(G)}

\* p runs from a sink back through unique predecessors to the first node with
\* out_degree > 1, its anchor
IsSinkTipPath(G, p) ==
    /\ IsSink(G, p[1])
    /\ \A i \in 1..(Len(p) - 1) : PredSet(G, p[i]) = {p[i + 1]}
    /\ \A i \in 2..(Len(p) - 1) : OutDeg(G, p[i]) <= 1
    /\ OutDeg(G, p[Len(p)]) > 1

\* p runs from a source forward through unique successors to the first node
\* with in_degree > 1, its anchor
IsSourceTipPath(G, p) ==
    /\ IsSource(G, p[1])
    /\ \A i \in 1..(Len(p) - 1) : SuccSet(G, p[i]) = {p[i + 1]}
    /\ \A i \in 2..(Len(p) - 1) : InDeg(G, p[i]) <= 1
    /\ InDeg(G, p[Len(p)]) > 1

\* the dead-end paths of G of at most n nodes, not counting the anchor
DeadEnds(G, n) ==
    {p \in UNION {[1..k -> G.nodes] : k \in 2..(n + 1)} :
        IsSinkTipPath(G, p) \/ IsSourceTipPath(G, p)}

\* the nodes of the dead-end path p without its anchor
TipOf(p) == {p[i] : i \in 1..(Len(p) - 1)}

\* C25: one pass of remove_tips removes only nodes of dead-end paths of at
\* most tip_max_len nodes, removes no node of a longer dead end, keeps the
\* anchor of every tip it removes, and removes nothing when tip_max_len = 0.
C25_OnlyShortTipsRemoved ==
    (pc = "tipped" /\ inp.max_iterations = 1) =>
        LET G == inp.before
            t == inp.tip_max_len
        IN  /\ \A n \in G.nodes \ graph.nodes : \E p \in DeadEnds(G, t) : n \in TipOf(p)
            /\ \A p \in DeadEnds(G, Cardinality(G.nodes) - 1) :
                  Len(p) - 1 > t => TipOf(p) \subseteq graph.nodes
            /\ \A p \in DeadEnds(G, t) : p[1] \notin graph.nodes => p[Len(p)] \in graph.nodes
            /\ t = 0 => graph = G

\* a pass with tip_max_len = 1 removed a tip of one node next to a dead end of
\* two nodes, which it kept
C25_Witness ==
    /\ pc = "tipped"
    /\ inp.max_iterations = 1
    /\ inp.tip_max_len = 1
    /\ inp.before.nodes # graph.nodes
    /\ \E p \in DeadEnds(inp.before, 2) : Len(p) = 3 /\ TipOf(p) \subseteq graph.nodes

(***************************************************************************)
(* Specification PathSpec: path_to_sequence on every path of at most       *)
(* MaxPathLen nodes, each a string of at most MaxNodeLen letters (the      *)
(* empty string is the node of a graph built with k = 1).                  *)
(***************************************************************************)
MaxPathLen == 3

MaxNodeLen == 2

PathNodeU == UNION {[1..n -> Alphabet] : n \in 0..MaxNodeLen}

Paths == UNION {[1..m -> PathNodeU] : m \in 0..MaxPathLen}

PathInit ==
    /\ graph = EmptyGraph
    /\ op = NoOp
    /\ inp \in [kind : {"path"}, path : Paths]
    /\ out = NoOut
    /\ pc = "path"

Render ==
    /\ pc = "path"
    /\ out' = [kind |-> "sequence", seq |-> path_to_sequence(inp.path)]
    /\ pc' = "rendered"
    /\ UNCHANGED <<graph, op, inp>>

PathNext == Render

PathSpec == PathInit /\ [][PathNext]_vars

\* every node of the path has n letters
UniformPath(path, n) == \A i \in DOMAIN path : Len(path[i]) = n

\* the first node followed by the last letter of each later node
FirstThenLastLetters(path) ==
    path[1] \o [i \in 1..(Len(path) - 1) |-> path[i + 1][Len(path[i + 1])]]

\* the result for a path of nodes of n letters each: no error, and the
\* stated sequence
RendersAsStated(n) ==
    /\ out.seq # IndexError
    /\ inp.path = << >> => out.seq = << >>
    /\ Len(inp.path) = 1 => out.seq = inp.path[1]
    /\ Len(inp.path) >= 1 =>
           /\ Len(out.seq) = n + (Len(inp.path) - 1)
           /\ out.seq = FirstThenLastLetters(inp.path)

\* C12 as stated: for nodes of any common length k-1 (k >= 1), the empty path
\* renders to the empty string, a one-node path to that node, and a path of m
\* nodes to the first node followed by the last letter of each later node,
\* (k-1) + (m-1) letters in all.  Fails for k = 1, where node[-1] raises.
C12_PathRenders ==
    pc = "rendered" =>
        \A n \in 0..MaxNodeLen : UniformPath(inp.path, n) => RendersAsStated(n)

\* The statement of C12 restricted to nodes of a common length k-1 >= 1.
C12_PathOfNonEmptyNodesRenders ==
    pc = "rendered" =>
        \A n \in 1..MaxNodeLen : UniformPath(inp.path, n) => RendersAsStated(n)

\* a path of MaxPathLen two-letter nodes was rendered
C12_Witness ==
    /\ pc = "rendered"
    /\ Len(inp.path) = MaxPathLen
    /\ UniformPath(inp.path, 2)
    /\ Len(out.seq) = 2 + (MaxPathLen - 1)

(***************************************************************************)
(* Specification StatsSpec: contig_stats on every set of distinct contigs  *)
(* drawn from the runs of one letter of 1 to MaxContigLen letters, so that *)
(* two contigs can have the same length.                                   *)
(***************************************************************************)
MaxContigLen == 5

ContigU == {[i \in 1..n |-> c] : n \in 1..MaxContigLen, c \in Alphabet}

StatsInit ==
    /\ graph = EmptyGraph
    /\ op = NoOp
    /\ inp \in [kind : {"contigs"}, contigs : SUBSET ContigU]
    /\ out = [kind |-> "none", stats |-> NoStats]
    /\ pc = "contigs"

Stats ==
    /\ pc = "contigs"
    /\ out' = [kind |-> "stats", stats |-> contig_stats(inp.contigs)]
    /\ pc' = "reported"
    /\ UNCHANGED <<graph, op, inp>>

StatsNext == Stats

StatsSpec == StatsInit /\ [][StatsNext]_vars

\* the sum of the lengths of a set of contigs
RECURSIVE TotalLen(_)
TotalLen(S) ==
    IF S = {} THEN 0
    ELSE LET c == CHOOSE x \in S : TRUE IN Len(c) + TotalLen(S \ {c})

\* the contigs at least as long as l
AtLeast(S, l) == {c \in S : Len(c) >= l}

\* the greatest contig length l at which the contigs of length >= l together
\* reach half of the total: the length at which the running sum over the
\* lengths in descending order first reaches half of the total
HalfLength(S) ==
    CHOOSE l \in {Len(c) : c \in S} :
        /\ 2 * TotalLen(AtLeast(S, l)) >= TotalLen(S)
        /\ \A m \in {Len(c) : c \in S} :
               2 * TotalLen(AtLeast(S, m)) >= TotalLen(S) => m <= l

\* C13: n50 is the length of the first contig, in descending length order, at
\* which the running sum reaches at least half of total_length; total_length
\* is the sum, longest the maximum and shortest the minimum of the lengths;
\* for an empty contig set every statistic is 0.
C13_ContigStats ==
    pc = "reported" =>
        IF inp.contigs = {} THEN out.stats = NoStats
        ELSE /\ out.stats.num_contigs = Cardinality(inp.contigs)
             /\ out.stats.total_length = TotalLen(inp.contigs)
             /\ \A c \in inp.contigs :
                    out.stats.shortest <= Len(c) /\ Len(c) <= out.stats.longest
             /\ \E c \in inp.contigs : Len(c) = out.stats.longest
             /\ \E c \in inp.contigs : Len(c) = out.stats.shortest
             /\ out.stats.n50 = HalfLength(inp.contigs)

\* C13 witness: lengths 5, 3, 1, 1 (total 10) report n50 = 5
C13_Witness ==
    /\ pc = "reported"
    /\ {Len(c) : c \in inp.contigs} = {5, 3, 1}
    /\ Cardinality(inp.contigs) = 4
    /\ out.stats.total_length = 10
    /\ out.stats.n50 = 5

\* C14: in a run with bubble popping enabled, the call that follows
\* pop_bubbles_simple is a second remove_tips, before extract_contigs.
C14_SecondTipPass ==
    [][(inp.pop_bubbles /\ op.name = "pop_bubbles_simple") => op'.name = "remove_tips"]_vars

(***************************************************************************)
(* Specification TourSpec: tour_bus on a simple bubble.  Node A branches   *)
(* into a chain of one interior node and a chain of one or two interior    *)
(* nodes that meet again at node B; the branch listed first among the      *)
(* successors of A, and so walked first, is inp.first.                     *)
(***************************************************************************)
TourShortLists == [1..2 -> BubbleWeights]

TourLongLists == [1..2 -> BubbleWeights] \cup [1..3 -> BubbleWeights]

TourBubbleLens == {1, 2, tourbus_max_len}

TourInit ==
    /\ inp \in [kind : {"bubble"}, w1 : TourShortLists, w2 : TourLongLists, first : {1, 2},
                 tails : {FALSE}, max_bubble_len : TourBubbleLens]
    /\ graph = AddAll(EmptyGraph, BubbleEdges(inp))
    /\ op = NoOp
    /\ out = NoOut
    /\ pc = "tour"

TourBus ==
    /\ pc = "tour"
    /\ \E ord \in Orders(graph.nodes) :
           graph' = tour_bus(graph, inp.max_bubble_len, tourbus_max_iterations, ord)
    /\ op' = [name |-> "tour_bus", u |-> NoNode, v |-> NoNode,
              w |-> inp.max_bubble_len, present |-> graph' # graph]
    /\ pc' = "toured"
    /\ UNCHANGED <<inp, out>>

TourNext == TourBus

TourSpec == TourInit /\ [][TourNext]_vars

\* C15: when both branches are walked to B and their accumulated weights
\* (all edges from A to B) are equal, Tour Bus keeps the first-walked branch:
\* its first edge survives and the first edge of the second-walked branch is
\* deleted.
C15_TieKeepsFirstWalked ==
    (pc = "toured" /\ BothWithinLen /\ SumSeq(inp.w1) = SumSeq(inp.w2)) =>
        /\ HasEdge(graph, NodeA, Interior(inp.first, 1))
        /\ ~HasEdge(graph, NodeA, Interior(3 - inp.first, 1))

\* C22: after Tour Bus deleted a losing branch that is a simple chain, none of
\* that branch's interior nodes is left in the graph with in_degree 0 or
\* out_degree 0, whatever the iteration order of the candidate set.
C22_LosingChainFullyRemoved ==
    (pc = "toured" /\ BothWithinLen) =>
        \A b \in {1, 2} :
            ~HasEdge(graph, NodeA, Interior(b, 1)) =>
                \A n \in InteriorOf(b) \cap graph.nodes :
                    InDeg(graph, n) > 0 /\ OutDeg(graph, n) > 0

(***************************************************************************)
(* Specification NestSpec: pop_bubbles_simple called twice on a bubble     *)
(* nested in a bubble.  A branches to p and q; p branches to x and y,      *)
(* which meet at m; q leads to m.  The edges are added with A's first      *)
(* (inp.outer_first) or with p's first, which decides the order of         *)
(* list(graph.out_edges.keys()); inp.drop is the index of an edge left out *)
(* (0 for none).                                                           *)
(***************************************************************************)
NestWeights == {1, 3}

NestBubbleLens == {1, 2, default_max_bubble_len}

NestOuter == <<(<<(<<"A">>), (<<"p">>)>>), (<<(<<"A">>), (<<"q">>)>>)>>

NestInner == <<(<<(<<"p">>), (<<"x">>)>>), (<<(<<"p">>), (<<"y">>)>>),
               (<<(<<"x">>), (<<"m">>)>>), (<<(<<"y">>), (<<"m">>)>>)>>

NestLast == <<(<<(<<"q">>), (<<"m">>)>>)>>

\* the add_edge arguments of the graph described by b
NestEdges(b) ==
    LET pairs == (IF b.outer_first THEN NestOuter \o NestInner ELSE NestInner \o NestOuter)
                 \o NestLast
        kept  == SelectSeq([i \in DOMAIN pairs |-> <<pairs[i][1], pairs[i][2], b.wt[i], i>>],
                           LAMBDA e : e[4] # b.drop)
    IN  [i \in DOMAIN kept |-> <<kept[i][1], kept[i][2], kept[i][3]>>]

NestInit ==
    /\ inp \in [kind : {"nested"}, wt : [1..7 -> NestWeights], outer_first : BOOLEAN,
                 drop : 0..7, max_bubble_len : NestBubbleLens]
    /\ graph = AddAll(EmptyGraph, NestEdges(inp))
    /\ op = NoOp
    /\ out = NoOut
    /\ pc = "nested"

\* the first call (pc "nested") and a second call on its result (pc "popped")
PopCall ==
    /\ pc \in {"nested", "popped"}
    /\ graph' = pop_bubbles_simple(graph, inp.max_bubble_len)
    /\ op' = [name |-> "pop_bubbles_simple", u |-> NoNode, v |-> NoNode,
              w |-> inp.max_bubble_len, present |-> graph' # graph]
    /\ pc' = IF pc = "nested" THEN "popped" ELSE "popped_again"
    /\ UNCHANGED <<inp, out>>

NestNext == PopCall

NestSpec == NestInit /\ [][NestNext]_vars

\* C18: pop_bubbles_simple returns a fixpoint: a second call on the graph it
\* returned changes nothing.
C18_PopReachesFixpoint ==
    [][pc = "popped" => graph' = graph]_vars

(***************************************************************************)
(* Specification CutoffSpec: the coverage cutoff on a graph over the nodes *)
(* A, C, G.  The graph has the first Len(inp.wt) edges of CutPairs, the    *)
(* i-th with weight inp.wt[i]; the weights are 1, 2, max_search and one     *)
(* above max_search.                                                       *)
(***************************************************************************)
MaxCutEdges == 6

CutWeights == {1, 2, max_search, max_search + 1}

CutoffValues == {1, 2, 3, max_search + 1}

CutPairs ==
    <<(<<(<<"A">>), (<<"C">>)>>), (<<(<<"C">>), (<<"G">>)>>), (<<(<<"G">>), (<<"A">>)>>),
      (<<(<<"A">>), (<<"A">>)>>), (<<(<<"C">>), (<<"C">>)>>), (<<(<<"G">>), (<<"G">>)>>),
      (<<(<<"A">>), (<<"G">>)>>), (<<(<<"C">>), (<<"A">>)>>), (<<(<<"G">>), (<<"C">>)>>)>>

CutEdges(wt) == [i \in DOMAIN wt |-> <<CutPairs[i][1], CutPairs[i][2], wt[i]>>]

CutoffInit ==
    /\ inp \in [kind : {"cutoff"},
                 wt : UNION {[1..n -> CutWeights] : n \in 0..MaxCutEdges}]
    /\ Len(inp.wt) <= Len(CutPairs)
    /\ graph = AddAll(EmptyGraph, CutEdges(inp.wt))
    /\ op = NoOp
    /\ out = NoOut
    /\ pc = "cutoff"

EstimateCutoff ==
    /\ pc = "cutoff"
    /\ out' = [kind |-> "cutoff", value |-> estimate_coverage_cutoff_valley(graph)]
    /\ op' = [NoOp EXCEPT !.name = "estimate_coverage_cutoff_valley"]
    /\ pc' = "estimated"
    /\ UNCHANGED <<graph, inp>>

ApplyCutoff ==
    /\ pc = "cutoff"
    /\ \E min_coverage \in CutoffValues : \E ord \in Orders(graph.nodes) :
           /\ graph' = apply_coverage_cutoff(graph, min_coverage, ord)
           /\ op' = [name |-> "apply_coverage_cutoff", u |-> NoNode, v |-> NoNode,
                     w |-> min_coverage, present |-> graph' # graph]
    /\ pc' = "cut"
    /\ UNCHANGED <<inp, out>>

CutoffNext == EstimateCutoff \/ ApplyCutoff

CutoffSpec == CutoffInit /\ [][CutoffNext]_vars

\* the number of edges of the input with weight c
EdgesOfWeight(c) == Cardinality({i \in DOMAIN inp.wt : inp.wt[i] = c})

\* the distinct weights of the input that lie in 1..15
WeightsInRange == {inp.wt[i] : i \in DOMAIN inp.wt} \cap (1..15)

\* w has a smaller and a larger weight in range and fewer edges than the
\* nearest of each
IsValley(w) ==
    /\ w \in WeightsInRange
    /\ \E lo \in WeightsInRange : \E hi \in WeightsInRange :
          /\ lo < w /\ w < hi
          /\ \A x \in WeightsInRange : ~(lo < x /\ x < w) /\ ~(w < x /\ x < hi)
          /\ EdgesOfWeight(w) < EdgesOfWeight(lo)
          /\ EdgesOfWeight(w) < EdgesOfWeight(hi)

Valleys == {w \in WeightsInRange : IsValley(w)}

StatedCutoff ==
    IF Len(inp.wt) = 0 \/ Cardinality(WeightsInRange) < 3 THEN 2
    ELSE IF Valleys # {} THEN (CHOOSE w \in Valleys : \A x \in Valleys : w <= x) + 1
    ELSE IF 10 * EdgesOfWeight(1) > 6 * Len(inp.wt) THEN 4
    ELSE IF 10 * EdgesOfWeight(1) > 4 * Len(inp.wt) THEN 3
    ELSE 2

C20_CutoffApplied ==
    pc = "cut" =>
        /\ \A i \in DOMAIN inp.wt :
              IF inp.wt[i] < op.w
              THEN ~HasEdge(graph, CutPairs[i][1], CutPairs[i][2])
              ELSE /\ HasEdge(graph, CutPairs[i][1], CutPairs[i][2])
                   /\ get_edge_weight(graph, CutPairs[i][1], CutPairs[i][2]) = inp.wt[i]
        /\ \A n \in graph.nodes \cup DOMAIN graph.in_degree \cup DOMAIN graph.out_degree :
              ~(InDeg(graph, n) = 0 /\ OutDeg(graph, n) = 0)

\* a cutoff removed edges, kept others and evicted a node left without edges
C20_Witness ==
    /\ pc = "cut"
    /\ \E i \in DOMAIN inp.wt : inp.wt[i] < op.w
    /\ \E i \in DOMAIN inp.wt : inp.wt[i] >= op.w
    /\ NumEdges(graph) > 0
    /\ Cardinality(graph.nodes) = 2
    /\ Len(inp.wt) >= 3

(***************************************************************************)
(* Specification ResolveSpec: one resolution of tour_bus, the body of its  *)
(* loop over branch_nodes for one branch node, on every graph of up to     *)
(* MaxResolveEdges edges over the nodes A, C, G (self-loops and cycles     *)
(* included; the i-th edge added has weight i).                            *)
(***************************************************************************)
MaxResolveEdges == 4

ResolveBubbleLens == {1, 2, tourbus_max_len}

ResolveInit ==
    /\ \E es \in EdgeLists(MaxResolveEdges) : graph = AddAll(EmptyGraph, Weighted(es))
    /\ op = NoOp
    /\ inp = NoInp
    /\ out = NoOut
    /\ pc = "branch"

\* for branch in branch_nodes: ... remove_weakest_bubble_path(graph, paths, branch)
ResolveBranch ==
    /\ pc = "branch"
    /\ \E branch \in graph.nodes : \E max_bubble_len \in ResolveBubbleLens :
       \E ord \in Orders(graph.nodes) :
           LET paths      == find_bubble_paths(graph, branch, max_bubble_len)
               merge_node == paths_merge_at_same_node(paths)
               r          == remove_weakest_bubble_path(graph, paths, branch, ord)
               skip       == \/ Len(paths) < 2
                             \/ merge_node = NoMerge
                             \/ merge_node = << >>
           IN  /\ OutDeg(graph, branch) >= 2
               /\ graph' = IF skip THEN graph ELSE r.graph
               /\ inp' = [kind |-> "resolve", before |-> graph, branch |-> branch,
                          max_bubble_len |-> max_bubble_len]
               /\ out' = [kind |-> "resolve", paths |-> paths, merge_node |-> merge_node,
                          resolved |-> ~skip /\ r.removed]
               /\ op' = [name |-> "remove_weakest_bubble_path", u |-> branch, v |-> NoNode,
                         w |-> max_bubble_len, present |-> ~skip /\ r.removed]
    /\ pc' = "resolved"

ResolveNext == ResolveBranch

ResolveSpec == ResolveInit /\ [][ResolveNext]_vars

\* the edges of the i-th walked branch, from the branch node to the end of
\* its walk, as pairs
BranchPath(i) == <<inp.branch>> \o out.paths[i].path

BranchPairs(i) == {<<BranchPath(i)[j], BranchPath(i)[j + 1]>> : j \in 1..(Len(BranchPath(i)) - 1)}

\* the branch whose first edge the resolution deleted
Deleted(i) == ~HasEdge(graph, inp.branch, out.paths[i].path[1])

StrictlyHighest(i) == \A j \in DOMAIN out.paths : j # i => out.paths[j].cov < out.paths[i].cov

\* C21: a Tour Bus resolution of branches that all end at the same node never
\* deletes the first edge of a branch of strictly highest accumulated weight,
\* never removes the branch node or the common end node, and removes no node
\* and no edge of a branch other than the deleted one.
C21_ResolutionKeepsOthers ==
    (pc = "resolved" /\ out.resolved) =>
        /\ \A i \in DOMAIN out.paths : StrictlyHighest(i) => ~Deleted(i)
        /\ inp.branch \in graph.nodes
        /\ out.merge_node \in graph.nodes
        /\ \A i \in DOMAIN out.paths : ~Deleted(i) =>
              /\ Range(BranchPath(i)) \subseteq graph.nodes
              /\ \A e \in BranchPairs(i) :
                    /\ HasEdge(graph, e[1], e[2])
                    /\ get_edge_weight(graph, e[1], e[2]) = get_edge_weight(inp.before, e[1], e[2])

(***************************************************************************)
(* Termination.  The loops without an explicit bound (the while True loops *)
(* of walk_forward and walk_backward, the while queue loop of              *)
(* find_connected_component) are modelled one iteration per step; the      *)
(* bounded loops are modelled by the number of iterations they execute.    *)
(***************************************************************************)
\* one iteration of the while True loop of walk_forward; w = [path, edges, current]
WalkForwardIter(G, used_edges, w) ==
    IF ~HasKey(G, w.current) THEN [w |-> w, stop |-> TRUE]
    ELSE LET available == SelectSeq(get_successors(G, w.current),
                              LAMBDA t : /\ <<w.current, t>> \notin used_edges
                                         /\ <<w.current, t>> \notin w.edges)
         IN  IF Len(available) # 1 THEN [w |-> w, stop |-> TRUE]
             ELSE LET next_node == available[1]
                      w1 == [path    |-> Append(w.path, next_node),
                             edges   |-> w.edges \cup {<<w.current, next_node>>},
                             current |-> next_node]
                  IN  IF InDeg(G, next_node) > 1 /\ Len(w.path) > 1
                      THEN [w |-> [w1 EXCEPT !.current = w.current], stop |-> TRUE]
                      ELSE IF OutDeg(G, next_node) > 1
                           THEN [w |-> [w1 EXCEPT !.current = w.current], stop |-> TRUE]
                           ELSE [w |-> w1, stop |-> FALSE]

\* one iteration of the while True loop of walk_backward
WalkBackwardIter(G, used_edges, w) ==
    LET available == SelectSeq(get_predecessors(G, w.current),
                         LAMBDA q : /\ <<q, w.current>> \notin used_edges
                                    /\ <<q, w.current>> \notin w.edges)
    IN  IF Len(available) # 1 THEN [w |-> w, stop |-> TRUE]
        ELSE LET pred == available[1]
                 w1 == [path    |-> Append(w.path, pred),
                        edges   |-> w.edges \cup {<<pred, w.current>>},
                        current |-> pred]
             IN  IF OutDeg(G, pred) > 1 /\ w.path # << >>
                 THEN [w |-> [w1 EXCEPT !.current = w.current], stop |-> TRUE]
                 ELSE IF InDeg(G, pred) > 1
                      THEN [w |-> [w1 EXCEPT !.current = w.current], stop |-> TRUE]
                      ELSE [w |-> w1, stop |-> FALSE]

\* one iteration of the while queue loop of find_connected_component;
\* st = [queue, visited, component, visits], visits the nodes in the order
\* they were added to visited
BfsIter(G, st, ord) ==
    LET current == Head(st.queue)
    IN  IF current \in st.visited THEN [st EXCEPT !.queue = Tail(st.queue)]
        ELSE LET visited == st.visited \cup {current}
                 nb      == ListOf(get_neighbors_undirected(G, current), ord)
             IN  [queue     |-> Tail(st.queue) \o SelectSeq(nb, LAMBDA x : x \notin visited),
                  visited   |-> visited,
                  component |-> st.component \cup {current},
                  visits    |-> Append(st.visits, current)]

\* the number of iterations of the while loop of trace_tip_backward
RECURSIVE TraceBackSteps(_, _, _, _)
TraceBackSteps(G, path, current, max_len) ==
    IF Len(path) > max_len THEN 0
    ELSE LET preds == get_predecessors(G, current)
         IN  IF Len(preds) # 1 THEN 1
             ELSE IF OutDeg(G, preds[1]) > 1 THEN 1
             ELSE 1 + TraceBackSteps(G, Append(path, preds[1]), preds[1], max_len)

\* the number of iterations of the while loop of trace_tip_forward
RECURSIVE TraceFwdSteps(_, _, _, _)
TraceFwdSteps(G, path, current, max_len) ==
    IF Len(path) > max_len THEN 0
    ELSE LET successors == get_successors(G, current)
         IN  IF Len(successors) # 1 THEN 1
             ELSE IF InDeg(G, successors[1]) > 1 THEN 1
             ELSE 1 + TraceFwdSteps(G, Append(path, successors[1]), successors[1], max_len)

\* tour_bus that goes on to the next round after a round that resolved nothing
RECURSIVE TourBusLogNoBreak(_, _, _, _)
TourBusLogNoBreak(G, iterations, max_bubble_len, ord) ==
    IF iterations = 0 THEN << >>
    ELSE LET branch_nodes == SelectSeq(ListOf(G.nodes, ord), LAMBDA n : OutDeg(G, n) >= 2)
             st == TourBusRound([graph |-> G, resolved |-> 0], branch_nodes,
                                max_bubble_len, ord)
         IN  <<st.resolved>> \o TourBusLogNoBreak(st.graph, iterations - 1, max_bubble_len, ord)

\* resolved_this_round of every round tour_bus executes, in order
RECURSIVE TourBusLog(_, _, _, _)
TourBusLog(G, iterations, max_bubble_len, ord) ==
    IF iterations = 0 THEN << >>
    ELSE LET branch_nodes == SelectSeq(ListOf(G.nodes, ord), LAMBDA n : OutDeg(G, n) >= 2)
             st == TourBusRound([graph |-> G, resolved |-> 0], branch_nodes,
                                max_bubble_len, ord)
         IN  IF st.resolved = 0 THEN <<0>>
             ELSE <<st.resolved>> \o TourBusLog(st.graph, iterations - 1, max_bubble_len, ord)

\* len(nodes_to_remove) of every pass remove_tips executes, in order
RECURSIVE TipLog(_, _, _, _, _)
TipLog(G, iterations, tip_max_len, min_coverage_ratio, ord) ==
    IF iterations = 0 THEN << >>
    ELSE LET nodes_to_remove ==
                 TipScan(G, ListOf(G.nodes, ord), {}, tip_max_len, min_coverage_ratio)
         IN  IF nodes_to_remove = {} THEN <<0>>
             ELSE <<Cardinality(nodes_to_remove)>>
                  \o TipLog(remove_nodes(G, ListOf(nodes_to_remove, ord)), iterations - 1,
                            tip_max_len, min_coverage_ratio, ord)

(***************************************************************************)
(* Specification TermSpec: every stage loop, run on every graph of up to   *)
(* MaxTermEdges edges over the nodes A, C, G (self-loops and cycles        *)
(* included).  A loop that has been entered takes its next iteration       *)
(* whenever it has one: weak fairness of the loop steps.                   *)
(***************************************************************************)
MaxTermEdges == 3

TermLens == {0, 1, 2}

TermTourCaps == {1, 2, tourbus_max_iterations}

TermTipCaps == {1, 2, tips_max_iterations}

BoundedWalks == {"trace_tip_backward", "trace_tip_forward", "walk_simple_path",
                 "walk_path_with_coverage"}

TermInit ==
    /\ \E es \in EdgeLists(MaxTermEdges) : graph = AddAll(EmptyGraph, Weighted(es))
    /\ op = NoOp
    /\ inp = NoInp
    /\ out = NoOut
    /\ pc = "idle"

\* walk_forward(graph, start, used_edges) up to its loop
BeginWalkForward ==
    /\ pc = "idle"
    /\ \E start \in graph.nodes :
       \E used_edges \in {{}} \cup {{e} : e \in EdgeSet(graph)} :
           /\ inp' = [kind |-> "walk", start |-> start, used_edges |-> used_edges]
           /\ out' = [kind |-> "walk",
                      w |-> [path |-> <<start>>, edges |-> {}, current |-> start]]
    /\ op' = [NoOp EXCEPT !.name = "walk_forward"]
    /\ pc' = "walk_forward"
    /\ UNCHANGED graph

WalkForwardStep ==
    /\ pc = "walk_forward"
    /\ LET r == WalkForwardIter(graph, inp.used_edges, out.w)
       IN  /\ out' = [out EXCEPT !.w = r.w]
           /\ pc' = IF r.stop THEN "done" ELSE pc
    /\ UNCHANGED <<graph, inp, op>>

\* walk_backward(graph, start, used_edges) up to its loop
BeginWalkBackward ==
    /\ pc = "idle"
    /\ \E start \in graph.nodes :
       \E used_edges \in {{}} \cup {{e} : e \in EdgeSet(graph)} :
           /\ inp' = [kind |-> "walk", start |-> start, used_edges |-> used_edges]
           /\ out' = [kind |-> "walk",
                      w |-> [path |-> << >>, edges |-> {}, current |-> start]]
    /\ op' = [NoOp EXCEPT !.name = "walk_backward"]
    /\ pc' = "walk_backward"
    /\ UNCHANGED graph

WalkBackwardStep ==
    /\ pc = "walk_backward"
    /\ LET r == WalkBackwardIter(graph, inp.used_edges, out.w)
       IN  /\ out' = [out EXCEPT !.w = r.w]
           /\ pc' = IF r.stop THEN "done" ELSE pc
    /\ UNCHANGED <<graph, inp, op>>

\* find_connected_component(graph, start, set()) up to its loop
BeginComponent ==
    /\ pc = "idle"
    /\ \E start \in graph.nodes :
           /\ inp' = [kind |-> "bfs", start |-> start]
           /\ out' = [kind |-> "bfs",
                      st |-> [queue |-> <<start>>, visited |-> {}, component |-> {},
                              visits |-> << >>]]
    /\ op' = [NoOp EXCEPT !.name = "find_connected_component"]
    /\ pc' = "bfs"
    /\ UNCHANGED graph

ComponentStep ==
    /\ pc = "bfs"
    /\ IF out.st.queue = << >>
       THEN pc' = "done" /\ out' = out
       ELSE /\ \E ord \in Orders(graph.nodes) :
                  out' = [out EXCEPT !.st = BfsIter(graph, out.st, ord)]
            /\ pc' = pc
    /\ UNCHANGED <<graph, inp, op>>

RunTourBus ==
    /\ pc = "idle"
    /\ \E max_bubble_len \in TermLens : \E max_iterations \in TermTourCaps :
       \E ord \in Orders(graph.nodes) :
           /\ graph' = tour_bus(graph, max_bubble_len, max_iterations, ord)
           /\ out' = [kind |-> "passes", cap |-> max_iterations,
                      log |-> TourBusLog(graph, max_iterations, max_bubble_len, ord)]
    /\ op' = [NoOp EXCEPT !.name = "tour_bus"]
    /\ pc' = "done"
    /\ UNCHANGED inp

RunRemoveTips ==
    /\ pc = "idle"
    /\ \E tip_max_len \in TermLens : \E max_iterations \in TermTipCaps :
       \E ord \in Orders(graph.nodes) :
           /\ graph' = remove_tips(graph, tip_max_len, default_min_coverage_ratio,
                                   max_iterations, ord)
           /\ out' = [kind |-> "passes", cap |-> max_iterations,
                      log |-> TipLog(graph, max_iterations, tip_max_len,
                                     default_min_coverage_ratio, ord)]
    /\ op' = [NoOp EXCEPT !.name = "remove_tips"]
    /\ pc' = "done"
    /\ UNCHANGED inp

\* one of the length-bounded walks, from any node, with any bound
RunBoundedWalk ==
    /\ pc = "idle"
    /\ \E walk \in BoundedWalks : \E start \in graph.nodes : \E max_len \in TermLens :
           /\ out' = [kind |-> "bounded", bound |-> max_len,
                      steps |->
                          CASE walk = "trace_tip_backward" ->
                                   TraceBackSteps(graph, <<start>>, start, max_len)
                            [] walk = "trace_tip_forward" ->
                                   TraceFwdSteps(graph, <<start>>, start, max_len)
                            [] walk = "walk_simple_path" ->
                                   Len(walk_simple_path(graph, start, max_len).path) - 1
                            [] walk = "walk_path_with_coverage" ->
                                   Len(walk_path_with_coverage(graph, start, max_len).path) - 1]
           /\ op' = [NoOp EXCEPT !.name = walk, !.u = start]
    /\ pc' = "done"
    /\ UNCHANGED <<graph, inp>>

TermNext ==
    \/ BeginWalkForward \/ WalkForwardStep
    \/ BeginWalkBackward \/ WalkBackwardStep
    \/ BeginComponent \/ ComponentStep
    \/ RunTourBus \/ RunRemoveTips \/ RunBoundedWalk

\* an iteration of a loop that has been entered
LoopStep == WalkForwardStep \/ WalkBackwardStep \/ ComponentStep

TermSpec == TermInit /\ [][TermNext]_vars /\ WF_vars(LoopStep)

\* at most cap passes, every pass before the last changed something, and a
\* run that ended before the cap ended with a pass that changed nothing
PassesBounded ==
    /\ Len(out.log) <= out.cap
    /\ \A i \in 1..(Len(out.log) - 1) : out.log[i] > 0
    /\ Len(out.log) < out.cap => out.log[Len(out.log)] = 0

\* every visit is of a node not visited before
VisitsOnce ==
    /\ \A i, j \in DOMAIN out.st.visits : out.st.visits[i] = out.st.visits[j] => i = j
    /\ Range(out.st.visits) = out.st.visited

\* every iteration of a walk took an edge it had not taken before
WalkBounded ==
    /\ Cardinality(out.w.edges) = Len(out.w.path) - (IF op.name = "walk_forward" THEN 1 ELSE 0)
    /\ out.w.edges \subseteq EdgeSet(graph) \ inp.used_edges

StagesBounded ==
    /\ out.kind = "passes" => PassesBounded
    /\ out.kind = "bounded" => out.steps <= out.bound
    /\ out.kind = "bfs" => VisitsOnce
    /\ out.kind = "walk" => WalkBounded

\* C23: every stage loop terminates: tour_bus and remove_tips make at most
\* max_iterations passes and stop at the first pass that changes nothing, the
\* bounded walks take at most their bound in steps, the component search
\* visits each node once, and the walks of extract_contigs and the component
\* search reach their end on every graph, cycles and self-loops included.
C23_StagesTerminate == []StagesBounded /\ ((pc # "idle") ~> (pc = "done"))

\* a forward walk went once around a cycle of three nodes and stopped
C23_Witness ==
    /\ pc = "done"
    /\ op.name = "walk_forward"
    /\ Len(out.w.path) = 4
    /\ out.w.path[1] = out.w.path[4]
    /\ StagesBounded

\* C27: the graph that remove_tips hands to the next stage contains no node
\* with in_degree = 0 and out_degree = 0.
C27_NoIsolatedNodeAfterStage ==
    pc = "tipped" =>
        \A n \in graph.nodes : InDeg(graph, n) > 0 \/ OutDeg(graph, n) > 0

(***************************************************************************)
(* Specification TraverseSpec: one call of extract_contigs on every graph  *)
(* of up to MaxTraverseEdges edges over the nodes A, C, G (self-loops,     *)
(* cycles, branches and merges included; the i-th edge added has weight    *)
(* i), for every iteration order of graph.nodes.                           *)
(***************************************************************************)
MaxTraverseEdges == 4

TraverseMinLens == {1, 3}

TraverseInit ==
    /\ \E es \in EdgeLists(MaxTraverseEdges) : graph = AddAll(EmptyGraph, Weighted(es))
    /\ op = NoOp
    /\ inp = NoInp
    /\ out = NoOut
    /\ pc = "traverse"

\* contigs = extract_contigs(graph, k, min_contig_len); out.paths are the
\* paths returned by walk_unitig_bidirectional, in the order walked
ExtractContigs ==
    /\ pc = "traverse"
    /\ \E min_contig_len \in TraverseMinLens : \E ord \in Orders(graph.nodes) :
           LET st == ExtractState(graph, min_contig_len, ord)
           IN  /\ inp' = [kind |-> "traverse", min_contig_len |-> min_contig_len]
               /\ out' = [kind |-> "traverse", paths |-> st.paths,
                          used_edges |-> st.used_edges, contigs |-> Range(st.contigs)]
    /\ pc' = "traversed"
    /\ UNCHANGED <<graph, op>>

TraverseNext == ExtractContigs

TraverseSpec == TraverseInit /\ [][TraverseNext]_vars

\* the consecutive pairs of a path
PairsOf(path) == {<<path[j], path[j + 1]>> : j \in 1..(Len(path) - 1)}

\* the positions of a path at which the pair e is traversed
Crossings(path, e) == {j \in 1..(Len(path) - 1) : <<path[j], path[j + 1]>> = e}

\* C26: every node strictly between the first and the last node of a
\* produced unitig path has in_degree = 1 and out_degree = 1.
C26_NoInternalBranching ==
    pc = "traversed" =>
        \A i \in DOMAIN out.paths : \A j \in 2..(Len(out.paths[i]) - 1) :
            /\ InDeg(graph, out.paths[i][j]) = 1
            /\ OutDeg(graph, out.paths[i][j]) = 1

\* C28: when extract_contigs finishes, every edge of the graph is in
\* used_edges and lies on at least one produced unitig path.
C28_EveryEdgeConsumed ==
    pc = "traversed" =>
        \A e \in EdgeSet(graph) :
            /\ e \in out.used_edges
            /\ \E i \in DOMAIN out.paths : e \in PairsOf(out.paths[i])

\* C29: no edge is traversed twice: each edge occurs at most once within
\* one unitig path and in at most one unitig path.
C29_NoEdgeTwice ==
    pc = "traversed" =>
        \A e \in EdgeSet(graph) :
            /\ \A i \in DOMAIN out.paths : Cardinality(Crossings(out.paths[i], e)) <= 1
            /\ \A i, j \in DOMAIN out.paths :
                   (e \in PairsOf(out.paths[i]) /\ e \in PairsOf(out.paths[j])) => i = j

\* C30: every produced unitig path is a walk in the graph: each consecutive
\* pair of nodes of the path, the junction of the reversed backward part and
\* the forward part included, is an edge of the graph, and so is every k-mer
\* (k = 2 here: two consecutive letters) of the rendered contig.
C30_PathsAreWalks ==
    pc = "traversed" =>
        \A i \in DOMAIN out.paths :
            LET seq == path_to_sequence(out.paths[i])
            IN  /\ PairsOf(out.paths[i]) \subseteq EdgeSet(graph)
                /\ \A j \in 1..(Len(seq) - 1) : HasEdge(graph, <<seq[j]>>, <<seq[j + 1]>>)

\* the first unitig walked has a backward part of two nodes and a forward
\* part of at least one edge
C30_Witness ==
    /\ pc = "traversed"
    /\ out.paths # << >>
    /\ \E n \in graph.nodes :
           /\ Len(walk_backward(graph, n, {}).path) = 2
           /\ Len(walk_forward(graph, n, {}).path) >= 2
           /\ out.paths[1] = walk_unitig_bidirectional(graph, n, {}).path

====
